---- MODULE Spec2Model ----
(***************************************************************************)
(* The reconciler of the Terraform custom resource                         *)
(* (internal/controllers/terraform_controller.go) together with the        *)
(* TerraformManipulator operations it calls (internal/terraform), run      *)
(* against a small cluster: the Run objects, the shared ServiceAccount and *)
(* RoleBinding, the module ConfigMaps, the output Secrets and the Jobs.    *)
(*                                                                         *)
(* One reconciliation pass is one step: the work queue serialises the      *)
(* passes of a Run, and every cluster call of a pass may fail.  The user   *)
(* (spec edits, deletion), the Job controller (pod progress) and the       *)
(* garbage collector take steps between passes.                            *)
(***************************************************************************)
EXTENDS FiniteSets, Integers, Sequences, TLC

----------------------------------------------------------------------------
(* Bounds *)

\* highest metadata.generation a Run reaches (the number of spec edits + 1)
MaxGeneration == 2

\* how many passes of a behaviour have a cluster call that is made to fail
MaxFailures == 1

\* the longest spec.variables list that is rendered or rewritten
MaxVariables == 2

----------------------------------------------------------------------------
(* Names and constants of the program *)

\* the Runs of the cluster, all in the namespace RunNamespace
Runs == {"a", "b"}

RunNamespace == "default"

\* a namespace that holds no Run
OtherNamespace == "other"

TerraformFinalizer == "finalizers.terraform-operator.io"
\* a finalizer that is not the operator's: the one of a foreground deletion
OtherFinalizer == "foregroundDeletion"

RunStarted == "Started"
RunRunning == "Running"
RunCompleted == "Completed"
RunFailed == "Failed"
RunWaitingForDependency == "WaitingForDependency"
RunDeleted == "Deleted"

\* the tokens random(6) returns here: six letters of its alphabet each
RunIds == {"k3x9ab", "p07qzd"}

\* the errors of a cluster call ("" is a nil error)
NoErr == ""
NotFound == "NotFound"
AlreadyExists == "AlreadyExists"
OtherErr == "Other"
\* the API server refuses an update that adds a finalizer to an object that
\* has a deletionTimestamp
Invalid == "Invalid"

\* the cluster calls of a pass that can be made to fail
FailPoints ==
  { "Get", "Update", "Status.Update", "CheckDependencies.Get",
    "isServiceAccountExist", "createServiceAccount", "isRoleBindingExist",
    "createRoleBinding", "createConfigMapForModule",
    "createSecretForOutputs.Get", "createSecretForOutputs.Create",
    "createJobForRun", "GetJobForRun", "deleteJobByRun.Get",
    "deleteJobByRun.Delete", "deleteConfigMapByRun.Get",
    "deleteConfigMapByRun.Delete" }

\* the calls after whose failure a pass still writes the status
NonFatalPoints ==
  { "CheckDependencies.Get", "isServiceAccountExist", "createServiceAccount",
    "isRoleBindingExist", "createRoleBinding", "createConfigMapForModule",
    "createSecretForOutputs.Get", "createSecretForOutputs.Create",
    "createJobForRun", "deleteJobByRun.Get", "deleteJobByRun.Delete",
    "deleteConfigMapByRun.Get", "deleteConfigMapByRun.Delete" }

\* the failures of one pass: none, one call, or one call and the status write
FailChoices ==
  {{}} \cup {{f} : f \in FailPoints}
       \cup {{f, "Status.Update"} : f \in NonFatalPoints}

\* the failures of one pass where two Runs are followed: the dependency lookup
\* or the status write
DepsFailChoices == {{}, {"CheckDependencies.Get"}, {"Status.Update"}}

----------------------------------------------------------------------------
(* Resource names *)

RECURSIVE TrimRight(_, _)
TrimRight(s, cutset) ==
  IF Len(s) > 0 /\ SubSeq(s, Len(s), Len(s)) = cutset
  THEN TrimRight(SubSeq(s, 1, Len(s) - 1), cutset)
  ELSE s

truncateResourceName(name, max) ==
  IF Len(name) < max
  THEN name
  ELSE TrimRight(TrimRight(SubSeq(name, 1, max), "-"), ".")

getUniqueResourceName(name, runID) ==
  truncateResourceName(name, 220) \o "-" \o runID

getOutputSecretName(runName) == truncateResourceName(runName, 220) \o "-outputs"

\* the labels of every child resource
getCommonLabels(name, runID) ==
  [ terraformRunName |-> name, terraformRunId |-> runID,
    component |-> "Terraform-run", owner |-> "run.terraform-operator.io" ]

\* the names a module ConfigMap or a Job can have
ChildKeys == {getUniqueResourceName(r, id) : r \in Runs, id \in RunIds}

----------------------------------------------------------------------------
(* State *)

VARIABLES
  runs,            \* the Terraform objects: metadata, spec and stored status
  serviceAccount,  \* the ServiceAccount terraform-runner of RunNamespace exists
  roleBinding,     \* the RoleBinding terraform-runner of RunNamespace exists
  configMaps,      \* the module ConfigMaps, by name
  secrets,         \* the output Secrets, by Run
  jobs,            \* the runner Jobs, by name
  jobSpecGeneration, \* history: the generation of the spec each Job was built from
  secretLabels,    \* the labels of the output Secrets, by Run
  inflight,        \* where the create path of each Run stands when its calls are
                   \* followed one by one, and the Run as that pass holds it
  call,            \* a function of the program applied on its own: its input
                   \* and, once it has returned, its result
  failures,        \* how many passes had a cluster call that was made to fail
  last             \* the pass that has just returned (NoPass after any other step)

vars == <<runs, serviceAccount, roleBinding, configMaps, secrets, jobs, jobSpecGeneration,
          secretLabels, inflight, call, failures, last>>

EmptyStatus ==
  [ RunID |-> "", PreviousRunID |-> "", OutputSecretName |-> "",
    ObservedGeneration |-> 0, RunStatus |-> "", StartedTime |-> "",
    CompletionTime |-> "" ]

NoJob == [exists |-> FALSE, deleting |-> FALSE, active |-> 0, succeeded |-> 0, failed |-> 0]

NewJob == [exists |-> TRUE, deleting |-> FALSE, active |-> 0, succeeded |-> 0, failed |-> 0]

NoObject == [exists |-> FALSE, deleting |-> FALSE]

NewObject == [exists |-> TRUE, deleting |-> FALSE]

\* the labels of a Secret that is not there
NoLabels ==
  [terraformRunName |-> "", terraformRunId |-> "", component |-> "", owner |-> ""]

NoPass ==
  [ run |-> "", branch |-> "none", err |-> NoErr, requeueAfter |-> "",
    ops |-> <<>>, events |-> <<>>, failed |-> FALSE ]

\* the dependsOn lists a Run is submitted with
DependsOnChoices(r) ==
  IF r = "b"
  THEN { <<>>,
         <<[name |-> "a", namespace |-> ""]>>,
         <<[name |-> "a", namespace |-> OtherNamespace]>> }
  ELSE { <<>> }

NoRun(r) ==
  [ exists |-> FALSE, name |-> r, namespace |-> RunNamespace, generation |-> 1,
    finalizers |-> {}, deletionTimestamp |-> FALSE,
    dependsOn |-> <<>>, deleteCompletedJobs |-> FALSE,
    status |-> EmptyStatus ]

NewRun(r, dependsOn, deleteCompletedJobs) ==
  [ exists |-> TRUE, name |-> r, namespace |-> RunNamespace, generation |-> 1,
    finalizers |-> {}, deletionTimestamp |-> FALSE,
    dependsOn |-> dependsOn, deleteCompletedJobs |-> deleteCompletedJobs,
    status |-> EmptyStatus ]

\* no function is applied on its own
NoCall == [fn |-> "none"]

\* no pass of Run r is under way
Idle(r) == [pc |-> "idle", t |-> NoRun(r), err |-> NoErr]

\* the cluster before any Run is submitted
EmptyCluster ==
  /\ serviceAccount = FALSE
  /\ roleBinding = FALSE
  /\ configMaps = [k \in ChildKeys |-> NoObject]
  /\ secrets = [r \in Runs |-> FALSE]
  /\ jobs = [k \in ChildKeys |-> NoJob]
  /\ jobSpecGeneration = [k \in ChildKeys |-> 0]
  /\ secretLabels = [r \in Runs |-> NoLabels]
  /\ inflight = [r \in Runs |-> Idle(r)]
  /\ failures = 0
  /\ last = NoPass

\* Run "b" is submitted alone; a Run it depends on is not there
Init ==
  /\ \E dep \in DependsOnChoices("b"), dcj \in BOOLEAN :
       runs = [r \in Runs |-> IF r = "b" THEN NewRun(r, dep, dcj) ELSE NoRun(r)]
  /\ EmptyCluster
  /\ call = NoCall

\* Runs "a" and "b" are submitted together, and "b" depends on "a"
InitDeps ==
  /\ \E ns \in {"", RunNamespace} :
       runs = [r \in Runs |->
                 IF r = "b"
                 THEN NewRun(r, <<[name |-> "a", namespace |-> ns]>>, FALSE)
                 ELSE NewRun(r, <<>>, FALSE)]
  /\ EmptyCluster
  /\ call = NoCall

----------------------------------------------------------------------------
(* A pass: the Run as loaded, the cluster as the pass has changed it so    *)
(* far, the calls that fail, and what the pass has done and returns        *)

NewPass(r, F) ==
  [ t |-> runs[r], F |-> F, runs |-> runs,
    serviceAccount |-> serviceAccount, roleBinding |-> roleBinding,
    configMaps |-> configMaps, secrets |-> secrets, jobs |-> jobs,
    jobSpecGeneration |-> jobSpecGeneration, secretLabels |-> secretLabels,
    branch |-> "none", err |-> NoErr, requeueAfter |-> "",
    ops |-> <<>>, events |-> <<>>, injected |-> FALSE ]

\* a cluster write the pass has made
Op(p, verb, kind, name) == [p EXCEPT !.ops = Append(@, <<verb, kind, name>>)]

\* r.Recorder.Event
Event(p, reason) == [p EXCEPT !.events = Append(@, reason)]

\* a call of the pass returns err; OtherErr is the error of a call made to fail
Fail(p, err) == [p EXCEPT !.err = err, !.injected = @ \/ err = OtherErr]

Ok(p) == [p EXCEPT !.err = NoErr]

\* Body of the value of e, with e computed once
Bind(e, Body(_)) == CHOOSE v \in {Body(x) : x \in {e}} : TRUE

\* if err != nil { return err }: the pass e when its last call failed, and
\* Body of it otherwise
Then(e, Body(_)) == Bind(e, LAMBDA q : IF q.err # NoErr THEN q ELSE Body(q))

----------------------------------------------------------------------------
(* Classification of a Run *)

\* a bug: every Run is taken for a new submission
IsSubmittedAlways(t) == TRUE

IsSubmitted(t) == t.status.RunID = ""

\* a bug: a Run that is Running is not taken for a started one
IsStartedOnly(t) == t.status.RunStatus = RunStarted

IsStarted(t) == t.status.RunStatus \in {RunStarted, RunRunning}

IsRunning(t) == t.status.RunStatus = RunRunning

\* a bug: every Run counts as edited
IsUpdatedAlways(t) == TRUE

IsUpdated(t) == t.generation > 0 /\ t.generation > t.status.ObservedGeneration

\* a bug: a waiting Run is not recognised
IsWaitingNever(t) == FALSE

IsWaiting(t) == t.status.RunStatus = RunWaitingForDependency

\* a bug: the former run id is not kept as previousRunId
setRunIDDropsPrevious(p, id) == [p EXCEPT !.t.status.RunID = id]

\* moves the current run id to previousRunId and draws a new one
setRunID(p, id) ==
  [p EXCEPT !.t.status.PreviousRunID =
              IF p.t.status.RunID # "" THEN p.t.status.RunID ELSE @,
            !.t.status.RunID = id]

----------------------------------------------------------------------------
(* Dependencies *)

\* c.Get of a Terraform object by namespace and name
GetRun(p, namespace, name) ==
  IF namespace = RunNamespace /\ name \in Runs /\ p.runs[name].exists
  THEN p.runs[name]
  ELSE [exists |-> FALSE]

\* a bug: a dependency counts as ready as soon as it exists
CheckDependencyExists(p, d) ==
  LET ns == IF d.namespace = "" THEN p.t.namespace ELSE d.namespace
      dep == GetRun(p, ns, d.name)
  IN  IF "CheckDependencies.Get" \in p.F THEN OtherErr
      ELSE IF ~dep.exists THEN NotFound
      ELSE NoErr

\* a bug: a dependency counts as ready whatever its runStatus
CheckDependencyAnyStatus(p, d) ==
  LET ns == IF d.namespace = "" THEN p.t.namespace ELSE d.namespace
      dep == GetRun(p, ns, d.name)
  IN  IF "CheckDependencies.Get" \in p.F THEN OtherErr
      ELSE IF ~dep.exists THEN NotFound
      ELSE IF dep.generation # dep.status.ObservedGeneration THEN "NotReady"
      ELSE NoErr

\* one entry of spec.dependsOn; the error of the entry, nil when it is ready
CheckDependency(p, d) ==
  LET ns == IF d.namespace = "" THEN p.t.namespace ELSE d.namespace
      dep == GetRun(p, ns, d.name)
  IN  IF "CheckDependencies.Get" \in p.F THEN OtherErr
      ELSE IF ~dep.exists THEN NotFound
      ELSE IF dep.generation # dep.status.ObservedGeneration THEN "NotReady"
      ELSE IF dep.status.RunStatus # RunCompleted THEN "NotReady"
      ELSE NoErr

\* the error of the first entry of spec.dependsOn that is not ready
CheckDependencies(p) ==
  LET bad == {i \in 1..Len(p.t.dependsOn) : CheckDependency(p, p.t.dependsOn[i]) # NoErr}
  IN  IF bad = {} THEN NoErr
      ELSE CheckDependency(p, p.t.dependsOn[CHOOSE i \in bad : \A j \in bad : i <= j])

----------------------------------------------------------------------------
(* internal/terraform/operations.go *)

isServiceAccountExist(p) ==
  IF "isServiceAccountExist" \in p.F THEN Fail(p, OtherErr) ELSE Ok(p)

createServiceAccount(p) ==
  IF "createServiceAccount" \in p.F THEN Fail(p, OtherErr)
  ELSE IF p.serviceAccount THEN Fail(p, AlreadyExists)
  ELSE Op([p EXCEPT !.serviceAccount = TRUE], "create", "ServiceAccount", "terraform-runner")

isRoleBindingExist(p) ==
  IF "isRoleBindingExist" \in p.F THEN Fail(p, OtherErr) ELSE Ok(p)

createRoleBinding(p) ==
  IF "createRoleBinding" \in p.F THEN Fail(p, OtherErr)
  ELSE IF p.roleBinding THEN Fail(p, AlreadyExists)
  ELSE Op([p EXCEPT !.roleBinding = TRUE], "create", "RoleBinding", "terraform-runner")

createRbacConfigIfNotExist(p) ==
  Then(isServiceAccountExist(p), LAMBDA sa :
  Then(IF ~sa.serviceAccount THEN createServiceAccount(sa) ELSE sa, LAMBDA p1 :
  Then(isRoleBindingExist(p1), LAMBDA rb :
  IF ~rb.roleBinding THEN createRoleBinding(rb) ELSE rb)))

createConfigMapForModule(p) ==
  LET name == getUniqueResourceName(p.t.name, p.t.status.RunID) IN
  IF "createConfigMapForModule" \in p.F THEN Fail(p, OtherErr)
  ELSE IF p.configMaps[name].exists THEN Fail(p, AlreadyExists)
  ELSE Op([p EXCEPT !.configMaps[name] = NewObject], "create", "ConfigMap", name)

\* a bug: the output Secret is created without a lookup
createSecretForOutputsNoLookup(p) ==
  IF "createSecretForOutputs.Create" \in p.F THEN Fail(p, OtherErr)
  ELSE IF p.secrets[p.t.name] THEN Fail(p, AlreadyExists)
  ELSE Op([p EXCEPT !.secrets[p.t.name] = TRUE,
                    !.secretLabels[p.t.name] = getCommonLabels(p.t.name, p.t.status.RunID)],
          "create", "Secret", getOutputSecretName(p.t.name))

createSecretForOutputs(p) ==
  IF "createSecretForOutputs.Get" \in p.F THEN Fail(p, OtherErr)
  ELSE IF p.secrets[p.t.name] THEN Ok(p)
  ELSE IF "createSecretForOutputs.Create" \in p.F THEN Fail(p, OtherErr)
  ELSE Op([p EXCEPT !.secrets[p.t.name] = TRUE,
                    !.secretLabels[p.t.name] = getCommonLabels(p.t.name, p.t.status.RunID)],
          "create", "Secret", getOutputSecretName(p.t.name))

\* a bug: the Job is not created
createJobForRunSkipped(p) == Ok(p)

createJobForRun(p) ==
  LET name == getUniqueResourceName(p.t.name, p.t.status.RunID) IN
  IF "createJobForRun" \in p.F THEN Fail(p, OtherErr)
  ELSE IF p.jobs[name].exists THEN Fail(p, AlreadyExists)
  ELSE Op([p EXCEPT !.jobs[name] = NewJob,
                    !.jobSpecGeneration[name] = p.t.generation],
          "create", "Job", name)

\* a bug: the Job is created before the module ConfigMap and the Secret
CreateTerraformRunJobFirst(p, id) ==
  Bind(setRunID(p, id), LAMBDA p0 :
  Then(createRbacConfigIfNotExist(p0), LAMBDA p1 :
  Then(createJobForRun(p1), LAMBDA p2 :
  Then(createConfigMapForModule(p2), LAMBDA p3 :
  createSecretForOutputs(p3)))))

\* a bug: the error of the ConfigMap create is returned only after the Secret
\* and the Job have been created
CreateTerraformRunCreatesAll(p, id) ==
  Bind(setRunID(p, id), LAMBDA p0 :
  Then(createRbacConfigIfNotExist(p0), LAMBDA p1 :
  Bind(createConfigMapForModule(p1), LAMBDA p2 :
  Then(createSecretForOutputs(Ok(p2)), LAMBDA p3 :
  Then(createJobForRun(p3), LAMBDA p4 :
  IF p2.err # NoErr THEN Fail(p4, p2.err) ELSE p4)))))

CreateTerraformRun(p, id) ==
  Bind(setRunID(p, id), LAMBDA p0 :
  Then(createRbacConfigIfNotExist(p0), LAMBDA p1 :
  Then(createConfigMapForModule(p1), LAMBDA p2 :
  Then(createSecretForOutputs(p2), LAMBDA p3 :
  createJobForRun(p3)))))

\* a bug: a Job that is not found is taken for a Job with no pod yet
GetJobForRunIgnoresNotFound(p, runID, point) ==
  IF point \in p.F THEN OtherErr ELSE NoErr

\* c.Get of the Job of a run id: the error of the call
GetJobForRun(p, runID, point) ==
  IF point \in p.F THEN OtherErr
  ELSE IF ~p.jobs[getUniqueResourceName(p.t.name, runID)].exists THEN NotFound
  ELSE NoErr

deleteJobByRun(p, runID) ==
  LET name == getUniqueResourceName(p.t.name, runID)
      get == GetJobForRun(p, runID, "deleteJobByRun.Get") IN
  IF get # NoErr THEN Fail(p, get)
  ELSE IF "deleteJobByRun.Delete" \in p.F THEN Fail(p, OtherErr)
  ELSE Op([p EXCEPT !.jobs[name].deleting = TRUE, !.err = NoErr], "delete", "Job", name)

deleteConfigMapByRun(p, runID) ==
  LET name == getUniqueResourceName(p.t.name, runID) IN
  IF "deleteConfigMapByRun.Get" \in p.F THEN Fail(p, OtherErr)
  ELSE IF ~p.configMaps[name].exists THEN Fail(p, NotFound)
  ELSE IF "deleteConfigMapByRun.Delete" \in p.F THEN Fail(p, OtherErr)
  ELSE Op([p EXCEPT !.configMaps[name].deleting = TRUE, !.err = NoErr], "delete", "ConfigMap", name)

DeleteAfterCompletion(p) == deleteJobByRun(p, p.t.status.RunID)

\* a bug: a Job that is not found ends the cleanup
CleanupResourcesStopsAtJob(p) ==
  LET previousRunID == p.t.status.PreviousRunID IN
  IF previousRunID = "" THEN Ok(p) ELSE
  Bind(deleteJobByRun(p, previousRunID), LAMBDA p1 :
  IF p1.err = NotFound THEN Ok(p1)
  ELSE IF p1.err # NoErr THEN p1 ELSE
  Bind(deleteConfigMapByRun(p1, previousRunID), LAMBDA p2 :
  IF p2.err \notin {NoErr, NotFound} THEN p2 ELSE Ok(p2)))

\* deletes the Job and the module ConfigMap of the previous run id
CleanupResources(p) ==
  LET previousRunID == p.t.status.PreviousRunID IN
  IF previousRunID = "" THEN Ok(p) ELSE
  Bind(deleteJobByRun(p, previousRunID), LAMBDA p1 :
  IF p1.err \notin {NoErr, NotFound} THEN p1 ELSE
  Bind(deleteConfigMapByRun(p1, previousRunID), LAMBDA p2 :
  IF p2.err \notin {NoErr, NotFound} THEN p2 ELSE Ok(p2)))

----------------------------------------------------------------------------
(* internal/controllers/terraform_controller.go *)

\* a bug: the generation after the next spec edit is recorded as observed
ObservedGenerationAhead(t) == t.generation + 1

\* t.Status.ObservedGeneration = t.Generation
ObservedGenerationOf(t) == t.generation

\* a bug: a status other than Started is written with outputSecretName empty
updateRunStatusDropsSecretName(p, status) ==
  LET started == status = RunStarted
      ended == status \in {RunCompleted, RunFailed}
      p1 == [p EXCEPT
               !.t.status.RunStatus = status,
               !.t.status.ObservedGeneration = ObservedGenerationOf(p.t),
               !.t.status.StartedTime = IF started THEN "now" ELSE @,
               !.t.status.OutputSecretName =
                  IF started THEN getOutputSecretName(p.t.name) ELSE "",
               !.t.status.CompletionTime = IF ended THEN "now" ELSE @]
  IN  IF "Status.Update" \in p.F THEN Fail(p1, OtherErr)
      ELSE Op([p1 EXCEPT !.runs[p.t.name].status = p1.t.status, !.err = NoErr],
              "updateStatus", "Terraform", p.t.name)

\* sets the status fields of the loaded Run and writes the status subresource
updateRunStatus(p, status) ==
  LET started == status = RunStarted
      ended == status \in {RunCompleted, RunFailed}
      p1 == [p EXCEPT
               !.t.status.RunStatus = status,
               !.t.status.ObservedGeneration = ObservedGenerationOf(p.t),
               !.t.status.StartedTime = IF started THEN "now" ELSE @,
               !.t.status.OutputSecretName =
                  IF started THEN getOutputSecretName(p.t.name) ELSE @,
               !.t.status.CompletionTime = IF ended THEN "now" ELSE @]
  IN  IF "Status.Update" \in p.F THEN Fail(p1, OtherErr)
      ELSE Op([p1 EXCEPT !.runs[p.t.name].status = p1.t.status, !.err = NoErr],
              "updateStatus", "Terraform", p.t.name)

\* a bug: the children of the previous run id are cleaned up after Started
\* is stored
handleRunCreateCleansLast(p, id) ==
  Bind(Fail(p, CheckDependencies(p)), LAMBDA dep :
  IF dep.err # NoErr
  THEN IF IsWaiting(p.t)
       THEN [Ok(dep) EXCEPT !.requeueAfter = "requeueDependency"]
       ELSE [updateRunStatus(Event(dep, "Waiting"), RunWaitingForDependency)
               EXCEPT !.requeueAfter = "requeueDependency"]
  ELSE Bind(CreateTerraformRun(p, id), LAMBDA c :
       IF c.err # NoErr
       THEN [updateRunStatus(c, RunFailed) EXCEPT !.err = c.err]
       ELSE Bind(updateRunStatus(c, RunStarted), LAMBDA started :
            [CleanupResources(started) EXCEPT !.err = started.err])))

\* a bug: a Run that is waiting already is stored as waiting at every poll
handleRunCreateRewritesWaiting(p, id) ==
  Bind(Fail(p, CheckDependencies(p)), LAMBDA dep :
  IF dep.err # NoErr
  THEN [updateRunStatus(Event(dep, "Waiting"), RunWaitingForDependency)
          EXCEPT !.requeueAfter = "requeueDependency"]
  ELSE Bind(CreateTerraformRun(p, id), LAMBDA c :
       IF c.err # NoErr
       THEN [updateRunStatus(c, RunFailed) EXCEPT !.err = c.err]
       ELSE Bind(CleanupResources(c), LAMBDA cleaned :
            updateRunStatus(cleaned, RunStarted))))

\* a bug: the Run is stored as Failed before a run id is drawn
handleRunCreateFailsFirst(p, id) == updateRunStatus(p, RunFailed)

handleRunCreate(p, id) ==
  Bind(Fail(p, CheckDependencies(p)), LAMBDA dep :
  IF dep.err # NoErr
  THEN IF IsWaiting(p.t)
       THEN [Ok(dep) EXCEPT !.requeueAfter = "requeueDependency"]
       ELSE [updateRunStatus(Event(dep, "Waiting"), RunWaitingForDependency)
               EXCEPT !.requeueAfter = "requeueDependency"]
  ELSE Bind(CreateTerraformRun(p, id), LAMBDA c :
       IF c.err # NoErr
       THEN [updateRunStatus(c, RunFailed) EXCEPT !.err = c.err]
       ELSE Bind(CleanupResources(c), LAMBDA cleaned :
            updateRunStatus(cleaned, RunStarted))))

\* a bug: the update path logs its error and returns nil
handleRunUpdateSwallows(p, id) == Ok(handleRunCreate(Event(p, "Updated"), id))

handleRunUpdate(p, id) == handleRunCreate(Event(p, "Updated"), id)

\* a bug: the deletion pass stores runStatus Deleted and keeps the finalizer
handleRunDeleteWithStatus(p) == updateRunStatus(p, RunDeleted)

\* removes the finalizer; the cluster then removes an object that is marked
\* for deletion and holds no finalizer
handleRunDelete(p) ==
  LET name == p.t.name
      finalizers == p.t.finalizers \ {TerraformFinalizer} IN
  IF "Update" \in p.F THEN Fail(p, OtherErr)
  ELSE Op([p EXCEPT !.runs[name].finalizers = finalizers,
                    !.runs[name].exists = finalizers # {},
                    !.err = NoErr],
          "update", "Terraform", name)

\* a bug: the succeeded and failed counts are looked at before the active one
handleRunJobWatchActiveLast(p) ==
  LET get == GetJobForRun(p, p.t.status.RunID, "GetJobForRun")
      job == p.jobs[getUniqueResourceName(p.t.name, p.t.status.RunID)] IN
  IF get # NoErr THEN Fail(p, get)
  ELSE IF job.succeeded > 0
  THEN updateRunStatus(Event(p, "Completed"), RunCompleted)
  ELSE IF job.failed > 0
  THEN updateRunStatus(Event(p, "Failed"), RunFailed)
  ELSE IF job.active > 0
  THEN IF IsRunning(p.t)
       THEN [Ok(p) EXCEPT !.requeueAfter = "requeueJobWatch"]
       ELSE updateRunStatus(Event(p, "Running"), RunRunning)
  ELSE [Ok(p) EXCEPT !.requeueAfter = "requeueJobWatch"]

\* maps the counts of the Job of the current run id to the status of the Run
handleRunJobWatch(p) ==
  LET get == GetJobForRun(p, p.t.status.RunID, "GetJobForRun")
      job == p.jobs[getUniqueResourceName(p.t.name, p.t.status.RunID)] IN
  IF get # NoErr THEN Fail(p, get)
  ELSE IF job.active > 0
  THEN IF IsRunning(p.t)
       THEN [Ok(p) EXCEPT !.requeueAfter = "requeueJobWatch"]
       ELSE updateRunStatus(Event(p, "Running"), RunRunning)
  ELSE IF job.succeeded > 0
  THEN IF ~p.t.deleteCompletedJobs
       THEN updateRunStatus(Event(p, "Completed"), RunCompleted)
       ELSE Bind(DeleteAfterCompletion(p), LAMBDA d :
            IF d.err # NoErr
            THEN updateRunStatus(Event(d, "Completed"), RunCompleted)
            ELSE updateRunStatus(Event(Event(d, "Cleanup"), "Completed"), RunCompleted))
  ELSE IF job.failed > 0
  THEN updateRunStatus(Event(p, "Failed"), RunFailed)
  ELSE [Ok(p) EXCEPT !.requeueAfter = "requeueJobWatch"]

\* a bug: the pass does not register the finalizer before it creates the run
ReconcilePassNoFinalizer(p, id) ==
  IF "Get" \in p.F THEN [Fail(p, OtherErr) EXCEPT !.branch = "get"]
  ELSE IF ~p.t.exists THEN [Ok(p) EXCEPT !.branch = "notfound"]
  ELSE IF p.t.deletionTimestamp
  THEN [handleRunDelete(p) EXCEPT !.branch = "delete"]
  ELSE IF IsSubmitted(p.t) \/ IsWaiting(p.t)
  THEN Bind([handleRunCreate(p, id) EXCEPT !.branch = "create"], LAMBDA q :
       IF q.err # NoErr THEN [q EXCEPT !.requeueAfter = ""] ELSE Event(q, "Created"))
  ELSE [Ok(p) EXCEPT !.branch = "noop"]

\* one reconciliation of the Run p.t, with id the token random(6) returns
ReconcilePass(p, id) ==
  IF "Get" \in p.F THEN [Fail(p, OtherErr) EXCEPT !.branch = "get"]
  ELSE IF ~p.t.exists THEN [Ok(p) EXCEPT !.branch = "notfound"]
  ELSE IF TerraformFinalizer \notin p.t.finalizers
  THEN IF "Update" \in p.F
       THEN [Fail(p, OtherErr) EXCEPT !.branch = "finalizer"]
       ELSE IF p.t.deletionTimestamp
       THEN [Fail(p, Invalid) EXCEPT !.branch = "finalizer"]
       ELSE Event(Op([p EXCEPT !.runs[p.t.name].finalizers = @ \cup {TerraformFinalizer},
                               !.branch = "finalizer", !.err = NoErr],
                     "update", "Terraform", p.t.name),
                  "Added finalizer")
  ELSE IF p.t.deletionTimestamp
  THEN [handleRunDelete(p) EXCEPT !.branch = "delete"]
  ELSE IF IsSubmitted(p.t) \/ IsWaiting(p.t)
  THEN Bind([handleRunCreate(p, id) EXCEPT !.branch = "create"], LAMBDA q :
       IF q.err # NoErr THEN [q EXCEPT !.requeueAfter = ""] ELSE Event(q, "Created"))
  ELSE IF IsStarted(p.t)
  THEN Bind([handleRunJobWatch(p) EXCEPT !.branch = "jobwatch"], LAMBDA q :
       IF q.err # NoErr THEN [q EXCEPT !.requeueAfter = ""] ELSE q)
  ELSE IF IsUpdated(p.t)
  THEN Bind([handleRunUpdate(p, id) EXCEPT !.branch = "update"], LAMBDA q :
       IF q.err # NoErr THEN [q EXCEPT !.requeueAfter = ""] ELSE q)
  ELSE [Ok(p) EXCEPT !.branch = "noop"]

\* the cluster after a pass, and the record of the pass
Commit(r, q) ==
  /\ runs' = q.runs
  /\ serviceAccount' = q.serviceAccount
  /\ roleBinding' = q.roleBinding
  /\ configMaps' = q.configMaps
  /\ secrets' = q.secrets
  /\ jobs' = q.jobs
  /\ jobSpecGeneration' = q.jobSpecGeneration
  /\ secretLabels' = q.secretLabels
  /\ inflight' = inflight
  /\ call' = call
  /\ last' = [ run |-> r, branch |-> q.branch, err |-> q.err,
               requeueAfter |-> q.requeueAfter, ops |-> q.ops,
               events |-> q.events, failed |-> q.injected ]

\* the work queue delivers the key of Run r; the calls of one of the sets in
\* choices fail in the pass
ReconcileWith(r, choices) ==
  \E F \in choices, id \in RunIds :
    /\ F # {} => failures < MaxFailures
    /\ \E p \in {NewPass(r, F)} :
         \E q \in {ReconcilePass(p, id)} :
           /\ F # {} => q.injected
           /\ failures' = IF q.injected THEN failures + 1 ELSE failures
           /\ Commit(r, q)

\* a pass of Run r in which any call may fail
Reconcile(r) == ReconcileWith(r, FailChoices)

\* a pass of Run r in which the dependency lookup or the status write may fail
ReconcileDeps(r) == ReconcileWith(r, DepsFailChoices)

\* a pass of Run r in which no call is made to fail
ReconcileNoFailure(r) == ReconcileWith(r, {{}})

----------------------------------------------------------------------------
(* The user *)

\* a spec edit: the cluster increments metadata.generation
EditSpec(r) ==
  /\ runs[r].exists
  /\ runs[r].generation < MaxGeneration
  /\ runs' = [runs EXCEPT ![r].generation = @ + 1]
  /\ last' = NoPass
  /\ UNCHANGED <<serviceAccount, roleBinding, configMaps, secrets, jobs, jobSpecGeneration, secretLabels, inflight, call, failures>>

\* a delete request: the object is marked, or removed when no finalizer holds it
DeleteRun(r) ==
  /\ runs[r].exists
  /\ ~runs[r].deletionTimestamp
  /\ runs' = [runs EXCEPT ![r].deletionTimestamp = TRUE,
                          ![r].exists = runs[r].finalizers # {}]
  /\ last' = NoPass
  /\ UNCHANGED <<serviceAccount, roleBinding, configMaps, secrets, jobs, jobSpecGeneration, secretLabels, inflight, call, failures>>

----------------------------------------------------------------------------
(* The Job controller and the garbage collector *)

\* the Run that owns a ConfigMap or a Job
Owner(k) == CHOOSE r \in Runs : \E id \in RunIds : k = getUniqueResourceName(r, id)

\* a Job whose pods are all done: one succeeded, or one failed and the
\* backoffLimit (spec.retryLimit, 0 when omitted) allows no retry
Finished(job) == job.succeeded > 0 \/ job.failed > 0

\* a Job whose pods the Job controller still runs
Live(k) == jobs[k].exists /\ ~jobs[k].deleting /\ runs[Owner(k)].exists

JobStart(k) ==
  /\ Live(k)
  /\ jobs[k].active = 0 /\ ~Finished(jobs[k])
  /\ jobs' = [jobs EXCEPT ![k].active = 1]
  /\ last' = NoPass
  /\ UNCHANGED <<runs, serviceAccount, roleBinding, configMaps, secrets, jobSpecGeneration, secretLabels, inflight, call, failures>>

JobSucceed(k) ==
  /\ Live(k)
  /\ jobs[k].active > 0
  /\ jobs' = [jobs EXCEPT ![k].active = 0, ![k].succeeded = 1]
  /\ last' = NoPass
  /\ UNCHANGED <<runs, serviceAccount, roleBinding, configMaps, secrets, jobSpecGeneration, secretLabels, inflight, call, failures>>

JobFail(k) ==
  /\ Live(k)
  /\ jobs[k].active > 0
  /\ jobs' = [jobs EXCEPT ![k].active = 0, ![k].failed = @ + 1]
  /\ last' = NoPass
  /\ UNCHANGED <<runs, serviceAccount, roleBinding, configMaps, secrets, jobSpecGeneration, secretLabels, inflight, call, failures>>

\* the pod of a Job runs to success between two passes
JobComplete(k) ==
  /\ Live(k)
  /\ ~Finished(jobs[k])
  /\ jobs' = [jobs EXCEPT ![k].active = 0, ![k].succeeded = 1]
  /\ last' = NoPass
  /\ UNCHANGED <<runs, serviceAccount, roleBinding, configMaps, secrets, jobSpecGeneration, secretLabels, inflight, call, failures>>

\* removes a Job that is marked for deletion
CollectJob(k) ==
  /\ jobs[k].exists
  /\ jobs[k].deleting
  /\ jobs' = [jobs EXCEPT ![k] = NoJob]
  /\ last' = NoPass
  /\ UNCHANGED <<runs, serviceAccount, roleBinding, configMaps, secrets, jobSpecGeneration, secretLabels, inflight, call, failures>>

\* removes a ConfigMap that is marked for deletion
CollectConfigMap(k) ==
  /\ configMaps[k].exists
  /\ configMaps[k].deleting
  /\ configMaps' = [configMaps EXCEPT ![k] = NoObject]
  /\ last' = NoPass
  /\ UNCHANGED <<runs, serviceAccount, roleBinding, secrets, jobs, jobSpecGeneration, secretLabels, inflight, call, failures>>

\* the cascade: removes the children of a Run that is gone
CollectOwned(r) ==
  /\ ~runs[r].exists
  /\ \/ secrets[r]
     \/ \E k \in ChildKeys : Owner(k) = r /\ (jobs[k].exists \/ configMaps[k].exists)
  /\ secrets' = [secrets EXCEPT ![r] = FALSE]
  /\ secretLabels' = [secretLabels EXCEPT ![r] = NoLabels]
  /\ jobs' = [k \in ChildKeys |-> IF Owner(k) = r THEN NoJob ELSE jobs[k]]
  /\ configMaps' = [k \in ChildKeys |-> IF Owner(k) = r THEN NoObject ELSE configMaps[k]]
  /\ last' = NoPass
  /\ UNCHANGED <<runs, serviceAccount, roleBinding, jobSpecGeneration, inflight, call, failures>>

----------------------------------------------------------------------------

Next ==
  \/ \E r \in Runs : Reconcile(r)
  \/ \E r \in Runs : EditSpec(r)
  \/ \E r \in Runs : DeleteRun(r)
  \/ \E k \in ChildKeys : JobStart(k)
  \/ \E k \in ChildKeys : JobSucceed(k)
  \/ \E k \in ChildKeys : JobFail(k)
  \/ \E k \in ChildKeys : CollectJob(k)
  \/ \E k \in ChildKeys : CollectConfigMap(k)
  \/ \E r \in Runs : CollectOwned(r)

Spec == Init /\ [][Next]_vars

\* two Runs, one depending on the other, with Jobs that succeed
NextDeps ==
  \/ \E r \in Runs : ReconcileDeps(r)
  \/ \E r \in Runs : EditSpec(r)
  \/ \E k \in ChildKeys : JobComplete(k)
  \/ \E k \in ChildKeys : CollectJob(k)
  \/ \E k \in ChildKeys : CollectConfigMap(k)

SpecDeps == InitDeps /\ [][NextDeps]_vars

\* the work queue delivers every key again (after an error, after requeueAfter,
\* after a change of the Run or of an object it owns), and the garbage
\* collector removes what is marked for deletion
Fairness ==
  /\ \A r \in Runs : WF_vars(Reconcile(r))
  /\ \A k \in ChildKeys : WF_vars(CollectJob(k)) /\ WF_vars(CollectConfigMap(k))
  /\ \A r \in Runs : WF_vars(CollectOwned(r))

FairSpec == Spec /\ Fairness

\* two Runs, one depending on the other, with Jobs that succeed and no
\* cluster call made to fail
NextNoFailure ==
  \/ \E r \in Runs : ReconcileNoFailure(r)
  \/ \E r \in Runs : EditSpec(r)
  \/ \E k \in ChildKeys : JobComplete(k)
  \/ \E k \in ChildKeys : CollectJob(k)
  \/ \E k \in ChildKeys : CollectConfigMap(k)

FairnessNoFailure ==
  /\ \A r \in Runs : WF_vars(ReconcileNoFailure(r))
  /\ \A k \in ChildKeys : WF_vars(CollectJob(k)) /\ WF_vars(CollectConfigMap(k))

FairSpecNoFailure == InitDeps /\ [][NextNoFailure]_vars /\ FairnessNoFailure

----------------------------------------------------------------------------
(* Two workers: the create paths of two Runs, call by call. The work queue  *)
(* hands different Runs to different workers, and the cluster calls of the  *)
(* two passes interleave.                                                   *)

\* Runs "a" and "b" are submitted together with no dependencies, and both
\* already hold the finalizer
InitRace ==
  /\ \E dcj \in [Runs -> BOOLEAN] :
       runs = [r \in Runs |->
                 [NewRun(r, <<>>, dcj[r]) EXCEPT !.finalizers = {TerraformFinalizer}]]
  /\ EmptyCluster
  /\ call = NoCall

\* the pass of Run r as it stands before its next call: the Run as the pass
\* holds it, and the cluster as it is now
PassOf(r) == [NewPass(r, {}) EXCEPT !.t = inflight[r].t, !.err = inflight[r].err]

\* the cluster after a call of the pass, and where the pass stands
CommitCall(r, q, pc) ==
  /\ runs' = q.runs
  /\ serviceAccount' = q.serviceAccount
  /\ roleBinding' = q.roleBinding
  /\ configMaps' = q.configMaps
  /\ secrets' = q.secrets
  /\ jobs' = q.jobs
  /\ jobSpecGeneration' = q.jobSpecGeneration
  /\ secretLabels' = q.secretLabels
  /\ inflight' = [inflight EXCEPT ![r] = [pc |-> pc, t |-> q.t, err |-> q.err]]
  /\ UNCHANGED <<call, failures>>

\* Reconcile loads Run r, dispatches it to handleRunCreate, the dependencies
\* are ready, and CreateTerraformRun draws the run id
BeginCreate(r) ==
  /\ inflight[r].pc = "idle"
  /\ runs[r].exists
  /\ TerraformFinalizer \in runs[r].finalizers
  /\ ~runs[r].deletionTimestamp
  /\ IsSubmitted(runs[r]) \/ IsWaiting(runs[r])
  /\ \E id \in RunIds :
       \E p \in {NewPass(r, {})} :
         /\ CheckDependencies(p) = NoErr
         /\ CommitCall(r, setRunID(p, id), "isServiceAccountExist")
  /\ last' = NoPass

\* createRbacConfigIfNotExist: the lookup of the ServiceAccount
CallIsServiceAccountExist(r) ==
  /\ inflight[r].pc = "isServiceAccountExist"
  /\ \E q \in {isServiceAccountExist(PassOf(r))} :
       CommitCall(r, q, IF q.serviceAccount THEN "isRoleBindingExist"
                                            ELSE "createServiceAccount")
  /\ last' = NoPass

\* createRbacConfigIfNotExist: the create of the ServiceAccount; its error is
\* the error of CreateTerraformRun
CallCreateServiceAccount(r) ==
  /\ inflight[r].pc = "createServiceAccount"
  /\ \E q \in {createServiceAccount(PassOf(r))} :
       CommitCall(r, q, IF q.err # NoErr THEN "updateRunStatus"
                                         ELSE "isRoleBindingExist")
  /\ last' = NoPass

\* createRbacConfigIfNotExist: the lookup of the RoleBinding
CallIsRoleBindingExist(r) ==
  /\ inflight[r].pc = "isRoleBindingExist"
  /\ \E q \in {isRoleBindingExist(PassOf(r))} :
       CommitCall(r, q, IF q.roleBinding THEN "createChildren"
                                         ELSE "createRoleBinding")
  /\ last' = NoPass

\* createRbacConfigIfNotExist: the create of the RoleBinding
CallCreateRoleBinding(r) ==
  /\ inflight[r].pc = "createRoleBinding"
  /\ \E q \in {createRoleBinding(PassOf(r))} :
       CommitCall(r, q, IF q.err # NoErr THEN "updateRunStatus"
                                         ELSE "createChildren")
  /\ last' = NoPass

\* the rest of CreateTerraformRun, and CleanupResources when it succeeded
CallCreateChildren(r) ==
  /\ inflight[r].pc = "createChildren"
  /\ \E p \in {PassOf(r)} :
       \E q \in { Then(createConfigMapForModule(p), LAMBDA p2 :
                  Then(createSecretForOutputs(p2), LAMBDA p3 :
                  Then(createJobForRun(p3), LAMBDA c :
                  CleanupResources(c)))) } :
         CommitCall(r, q, "updateRunStatus")
  /\ last' = NoPass

\* handleRunCreate writes Failed after an error of CreateTerraformRun and
\* Started otherwise, and the pass returns
CallUpdateRunStatus(r) ==
  /\ inflight[r].pc = "updateRunStatus"
  /\ \E p \in {PassOf(r)} :
       \E q \in { IF p.err # NoErr
                  THEN [updateRunStatus(p, RunFailed) EXCEPT !.err = p.err]
                  ELSE Event(updateRunStatus(p, RunStarted), "Created") } :
         /\ runs' = q.runs
         /\ inflight' = [inflight EXCEPT ![r] = Idle(r)]
         /\ last' = [ run |-> r, branch |-> "create", err |-> q.err,
                      requeueAfter |-> "", ops |-> q.ops, events |-> q.events,
                      failed |-> FALSE ]
  /\ UNCHANGED <<serviceAccount, roleBinding, configMaps, secrets, jobs,
                 jobSpecGeneration, secretLabels, call, failures>>

NextRace ==
  \/ \E r \in Runs : BeginCreate(r)
  \/ \E r \in Runs : CallIsServiceAccountExist(r)
  \/ \E r \in Runs : CallCreateServiceAccount(r)
  \/ \E r \in Runs : CallIsRoleBindingExist(r)
  \/ \E r \in Runs : CallCreateRoleBinding(r)
  \/ \E r \in Runs : CallCreateChildren(r)
  \/ \E r \in Runs : CallUpdateRunStatus(r)

SpecRace == InitRace /\ [][NextRace]_vars

----------------------------------------------------------------------------
(* internal/resources/terraform_project.go: the main.tf of a Run, as the    *)
(* sequence of its lines without indentation and empty lines               *)

\* the specs that are rendered
TerraformVersions == {"1.0.2", "1.3"}

ModuleSources == {"IbraheemAlSaady/test/module"}

ModuleVersions == {"", "0.0.1"}

VariableKeys == {"length", "region"}

Backends == {"", "backend \"local\" {}"}

OutputLists == {<<>>, <<[Key |-> "result", ModuleOutputName |-> "id"]>>}

\* the spec.variables lists of at most MaxVariables entries
VariableLists ==
  UNION { [1..n -> [Key : VariableKeys, EnvironmentVariable : BOOLEAN]] : n \in 0..MaxVariables }

RenderedSpecs ==
  [ TerraformVersion : TerraformVersions, Backend : Backends, ProvidersConfig : {""},
    Module : [Source : ModuleSources, Version : ModuleVersions],
    Variables : VariableLists, Outputs : OutputLists ]

\* a bug: the variables passed through the environment are rendered too
WithEnvironmentVariables(variables) == variables

\* {{range .Spec.Variables}}{{if not .EnvironmentVariable}}
NotEnvironmentVariables(variables) ==
  SelectSeq(variables, LAMBDA v : ~v.EnvironmentVariable)

VariableDeclaration(key) == "variable \"" \o key \o "\" {}"

VariableAssignment(key) == key \o " = var." \o key

RequiredVersion(version) == "required_version = \"~> " \o version \o "\""

ModuleSource(source) == "source = \"" \o source \o "\""

ModuleVersion(version) == "version = \"" \o version \o "\""

GetTerraformModuleFromTemplate(spec) ==
  LET rendered == NotEnvironmentVariables(spec.Variables) IN
  <<"terraform {">>
  \o (IF spec.Backend # "" THEN <<spec.Backend>> ELSE <<>>)
  \o <<RequiredVersion(spec.TerraformVersion), "}">>
  \o (IF spec.ProvidersConfig # "" THEN <<spec.ProvidersConfig>> ELSE <<>>)
  \o [i \in 1..Len(rendered) |-> VariableDeclaration(rendered[i].Key)]
  \o <<"## additional-blocks", "module \"operator\" {", ModuleSource(spec.Module.Source)>>
  \o (IF spec.Module.Version # "" THEN <<ModuleVersion(spec.Module.Version)>> ELSE <<>>)
  \o [i \in 1..Len(rendered) |-> VariableAssignment(rendered[i].Key)]
  \o <<"}">>
  \o [i \in 1..3 * Len(spec.Outputs) |->
        LET output == spec.Outputs[(i + 2) \div 3] IN
        IF i % 3 = 1 THEN "output \"" \o output.Key \o "\" {"
        ELSE IF i % 3 = 2 THEN "value = module.operator." \o output.ModuleOutputName
        ELSE "}"]

\* a spec is handed to the renderer
InitRender ==
  /\ runs = [r \in Runs |-> NoRun(r)]
  /\ EmptyCluster
  /\ \E spec \in RenderedSpecs :
       call = [fn |-> "GetTerraformModuleFromTemplate", in |-> spec,
               out |-> <<>>, done |-> FALSE]

\* GetConfigMapSpecForModule renders the module
Render ==
  /\ call.fn = "GetTerraformModuleFromTemplate" /\ ~call.done
  /\ call' = [call EXCEPT !.out = GetTerraformModuleFromTemplate(call.in), !.done = TRUE]
  /\ UNCHANGED <<runs, serviceAccount, roleBinding, configMaps, secrets, jobs,
                 jobSpecGeneration, secretLabels, inflight, failures, last>>

SpecRender == InitRender /\ [][Render]_vars

----------------------------------------------------------------------------
(* SetVariablesFromDependencies: the variables of a Run that refer to the   *)
(* outputs of its dependencies                                             *)

NoRef == [Name |-> "", Key |-> ""]

NoValueFrom == [secretName |-> "", key |-> ""]

\* the dependencyRef of a variable: none, or an output of Run "a" or "c"
DependencyRefs == {NoRef, [Name |-> "a", Key |-> "id"], [Name |-> "c", Key |-> "arn"]}

\* the spec.variables lists that are rewritten
RewrittenVariableLists ==
  UNION { [1..n -> [Key : VariableKeys, Value : {"16"}, DependencyRef : DependencyRefs,
                    ValueFrom : {NoValueFrom}]] : n \in 0..MaxVariables }

\* the Runs CheckDependencies can return: completed Runs "a" and "c" of the
\* namespace of the Run, and a Run "a" of another namespace
ReadyDependencies ==
  { [Name |-> "a", Namespace |-> RunNamespace, OutputSecretName |-> getOutputSecretName("a")],
    [Name |-> "c", Namespace |-> RunNamespace, OutputSecretName |-> getOutputSecretName("c")],
    [Name |-> "a", Namespace |-> OtherNamespace, OutputSecretName |-> getOutputSecretName("a")] }

\* the lists of dependencies, each Run at most once
DependencyLists ==
  { deps \in UNION { [1..n -> ReadyDependencies] : n \in 0..2 } :
      \A i, j \in 1..Len(deps) : i # j => deps[i] # deps[j] }

\* the variable that replaces v: its value comes from the output Secret of dep
tfVar(v, dep) ==
  [ Key |-> v.Key, Value |-> "", DependencyRef |-> v.DependencyRef,
    ValueFrom |-> [secretName |-> dep.OutputSecretName, key |-> v.DependencyRef.Key] ]

\* the inner loop from the dependency at position j on, for the variable v;
\* s.variables is t.Spec.Variables. The element at the index of the
\* dependency (index, counted from 0, is j - 1) is cut out and the new
\* variable is appended; Variables[index+1:] panics when index + 1 exceeds
\* the length
RECURSIVE RangeDependencies(_, _, _, _, _)
RangeDependencies(s, v, dependencies, namespace, j) ==
  IF s.panic \/ j > Len(dependencies) THEN s
  ELSE LET dep == dependencies[j]
           n == Len(s.variables) IN
       IF dep.Name # v.DependencyRef.Name \/ dep.Namespace # namespace
       THEN RangeDependencies(s, v, dependencies, namespace, j + 1)
       ELSE IF j > n
       THEN [s EXCEPT !.panic = TRUE]
       ELSE RangeDependencies(
              [s EXCEPT !.variables = SubSeq(@, 1, j - 1) \o SubSeq(@, j + 1, n)
                                      \o <<tfVar(v, dep)>>],
              v, dependencies, namespace, j + 1)

\* the outer loop from position i on. range evaluates t.Spec.Variables once,
\* and both appends write into the array that slice shares with the list
\* they build, so the loop reads at position i what the appends have put
\* there
RECURSIVE RangeVariables(_, _, _, _)
RangeVariables(s, dependencies, namespace, i) ==
  IF s.panic \/ i > Len(s.variables) THEN s
  ELSE LET v == s.variables[i] IN
       IF v.DependencyRef = NoRef
       THEN RangeVariables(s, dependencies, namespace, i + 1)
       ELSE RangeVariables(RangeDependencies(s, v, dependencies, namespace, 1),
                           dependencies, namespace, i + 1)

SetVariablesFromDependencies(variables, dependencies, namespace) ==
  IF Len(dependencies) = 0
  THEN [panic |-> FALSE, variables |-> variables]
  ELSE RangeVariables([panic |-> FALSE, variables |-> variables],
                      dependencies, namespace, 1)

\* a Run of RunNamespace whose dependencies are ready is about to be created
InitRewrite ==
  /\ runs = [r \in Runs |-> NoRun(r)]
  /\ EmptyCluster
  /\ \E variables \in RewrittenVariableLists, dependencies \in DependencyLists :
       call = [fn |-> "SetVariablesFromDependencies",
               in |-> [variables |-> variables, dependencies |-> dependencies],
               out |-> [panic |-> FALSE, variables |-> <<>>], done |-> FALSE]

\* handleRunCreate rewrites the variables
Rewrite ==
  /\ call.fn = "SetVariablesFromDependencies" /\ ~call.done
  /\ call' = [call EXCEPT
                !.out = SetVariablesFromDependencies(call.in.variables,
                                                      call.in.dependencies, RunNamespace),
                !.done = TRUE]
  /\ UNCHANGED <<runs, serviceAccount, roleBinding, configMaps, secrets, jobs,
                 jobSpecGeneration, secretLabels, inflight, failures, last>>

SpecRewrite == InitRewrite /\ [][Rewrite]_vars

----------------------------------------------------------------------------
(* CleanupResources applied on its own                                     *)

\* the calls of CleanupResources
CleanupFailChoices ==
  { {} } \cup { {f} : f \in { "deleteJobByRun.Get", "deleteJobByRun.Delete",
                             "deleteConfigMapByRun.Get", "deleteConfigMapByRun.Delete" } }

\* Run "b" is new, or has completed a run; of the Jobs and ConfigMaps of
\* its run ids any may be there
InitCleanup ==
  /\ \E runID \in {""} \cup RunIds :
       runs = [r \in Runs |->
                 IF r = "b"
                 THEN [NewRun(r, <<>>, FALSE) EXCEPT
                         !.finalizers = {TerraformFinalizer},
                         !.generation = IF runID = "" THEN 1 ELSE 2,
                         !.status.RunID = runID,
                         !.status.ObservedGeneration = IF runID = "" THEN 0 ELSE 1,
                         !.status.RunStatus = IF runID = "" THEN "" ELSE RunCompleted]
                 ELSE NoRun(r)]
  /\ serviceAccount = FALSE
  /\ roleBinding = FALSE
  /\ \E cms \in SUBSET {getUniqueResourceName("b", id) : id \in RunIds} :
       configMaps = [k \in ChildKeys |-> IF k \in cms THEN [NoObject EXCEPT !.exists = TRUE]
                                         ELSE NoObject]
  /\ \E js \in SUBSET {getUniqueResourceName("b", id) : id \in RunIds} :
       jobs = [k \in ChildKeys |-> IF k \in js THEN [NoJob EXCEPT !.exists = TRUE, !.succeeded = 1]
                                   ELSE NoJob]
  /\ secrets = [r \in Runs |-> FALSE]
  /\ jobSpecGeneration = [k \in ChildKeys |-> 0]
  /\ secretLabels = [r \in Runs |-> NoLabels]
  /\ inflight = [r \in Runs |-> Idle(r)]
  /\ failures = 0
  /\ last = NoPass
  /\ call = [fn |-> "CleanupResources", in |-> [previousRunID |-> "", F |-> {}],
             out |-> [err |-> NoErr, ops |-> <<>>], done |-> FALSE]

\* the create path draws a run id and, its children created, cleans up
Cleanup ==
  /\ call.fn = "CleanupResources" /\ ~call.done
  /\ \E F \in CleanupFailChoices, id \in RunIds :
       \E q \in {CleanupResources(setRunID(NewPass("b", F), id))} :
         /\ jobs' = q.jobs
         /\ configMaps' = q.configMaps
         /\ call' = [call EXCEPT
                       !.in = [previousRunID |-> q.t.status.PreviousRunID, F |-> F],
                       !.out = [err |-> q.err, ops |-> q.ops],
                       !.done = TRUE]
  /\ UNCHANGED <<runs, serviceAccount, roleBinding, secrets, jobSpecGeneration,
                 secretLabels, inflight, failures, last>>

SpecCleanup == InitCleanup /\ [][Cleanup]_vars

----------------------------------------------------------------------------
(* The job watch applied to every Job status                               *)

\* the status a Job can report: with spec.retryLimit as its backoffLimit a
\* Job can have a failed pod and an active one
JobStatuses == [active : 0..1, succeeded : 0..1, failed : 0..1]

\* the calls of a pass that watches the Job
JobWatchFailChoices ==
  { F \in FailChoices :
      F \subseteq { "Get", "GetJobForRun", "Status.Update",
                    "deleteJobByRun.Get", "deleteJobByRun.Delete" } }

\* Run "b" is Started or Running, its spec edited since or not; its Job
\* reports any status or is gone
InitJobWatch ==
  /\ \E status \in {RunStarted, RunRunning}, generation \in 1..MaxGeneration,
        dcj \in BOOLEAN, job \in JobStatuses, exists \in BOOLEAN :
       /\ ~exists => job = [active |-> 0, succeeded |-> 0, failed |-> 0]
       /\ runs = [r \in Runs |->
                    IF r = "b"
                    THEN [NewRun(r, <<>>, dcj) EXCEPT
                            !.finalizers = {TerraformFinalizer},
                            !.generation = generation,
                            !.status.RunID = "k3x9ab",
                            !.status.ObservedGeneration = 1,
                            !.status.OutputSecretName = getOutputSecretName(r),
                            !.status.StartedTime = "now",
                            !.status.RunStatus = status]
                    ELSE NoRun(r)]
       /\ jobs = [k \in ChildKeys |->
                    IF k = getUniqueResourceName("b", "k3x9ab") /\ exists
                    THEN [exists |-> TRUE, deleting |-> FALSE, active |-> job.active,
                          succeeded |-> job.succeeded, failed |-> job.failed]
                    ELSE NoJob]
       /\ call = [fn |-> "handleRunJobWatch",
                  in |-> [RunStatus |-> status, exists |-> exists, job |-> job],
                  F |-> {}, done |-> FALSE]
  /\ serviceAccount = TRUE
  /\ roleBinding = TRUE
  /\ configMaps = [k \in ChildKeys |->
                     IF k = getUniqueResourceName("b", "k3x9ab")
                     THEN [NoObject EXCEPT !.exists = TRUE] ELSE NoObject]
  /\ secrets = [r \in Runs |-> r = "b"]
  /\ jobSpecGeneration = [k \in ChildKeys |->
                            IF k = getUniqueResourceName("b", "k3x9ab") THEN 1 ELSE 0]
  /\ secretLabels = [r \in Runs |->
                       IF r = "b" THEN getCommonLabels("b", "k3x9ab") ELSE NoLabels]
  /\ inflight = [r \in Runs |-> Idle(r)]
  /\ failures = 0
  /\ last = NoPass

\* one reconciliation of Run "b"
WatchJob ==
  /\ call.fn = "handleRunJobWatch" /\ ~call.done
  /\ \E F \in JobWatchFailChoices, id \in RunIds :
       \E q \in {ReconcilePass(NewPass("b", F), id)} :
         /\ F # {} => q.injected
         /\ failures' = IF q.injected THEN failures + 1 ELSE failures
         /\ runs' = q.runs
         /\ serviceAccount' = q.serviceAccount
         /\ roleBinding' = q.roleBinding
         /\ configMaps' = q.configMaps
         /\ secrets' = q.secrets
         /\ jobs' = q.jobs
         /\ jobSpecGeneration' = q.jobSpecGeneration
         /\ secretLabels' = q.secretLabels
         /\ inflight' = inflight
         /\ last' = [ run |-> "b", branch |-> q.branch, err |-> q.err,
                      requeueAfter |-> q.requeueAfter, ops |-> q.ops,
                      events |-> q.events, failed |-> q.injected ]
         /\ call' = [call EXCEPT !.F = F, !.done = TRUE]

SpecJobWatch == InitJobWatch /\ [][WatchJob]_vars

----------------------------------------------------------------------------
(* A Run that another finalizer holds                                      *)

\* a foreground deletion: the object is marked and held until its
\* dependents are gone
DeleteRunForeground(r) ==
  /\ runs[r].exists
  /\ ~runs[r].deletionTimestamp
  /\ runs' = [runs EXCEPT ![r].deletionTimestamp = TRUE,
                          ![r].finalizers = @ \cup {OtherFinalizer}]
  /\ last' = NoPass
  /\ UNCHANGED <<serviceAccount, roleBinding, configMaps, secrets, jobs, jobSpecGeneration, secretLabels, inflight, call, failures>>

\* whoever holds the other finalizer releases a Run that is being deleted
RemoveOtherFinalizer(r) ==
  /\ runs[r].exists
  /\ runs[r].deletionTimestamp
  /\ OtherFinalizer \in runs[r].finalizers
  /\ runs' = [runs EXCEPT ![r].finalizers = @ \ {OtherFinalizer},
                          ![r].exists = runs[r].finalizers # {OtherFinalizer}]
  /\ last' = NoPass
  /\ UNCHANGED <<serviceAccount, roleBinding, configMaps, secrets, jobs, jobSpecGeneration, secretLabels, inflight, call, failures>>

NextFinalizer ==
  \/ \E r \in Runs : Reconcile(r)
  \/ \E r \in Runs : EditSpec(r)
  \/ \E r \in Runs : DeleteRun(r)
  \/ \E r \in Runs : DeleteRunForeground(r)
  \/ \E r \in Runs : RemoveOtherFinalizer(r)
  \/ \E k \in ChildKeys : JobComplete(k)
  \/ \E k \in ChildKeys : CollectJob(k)
  \/ \E k \in ChildKeys : CollectConfigMap(k)
  \/ \E r \in Runs : CollectOwned(r)

SpecFinalizer == Init /\ [][NextFinalizer]_vars

----------------------------------------------------------------------------
(* Runs whose dependencies form a cycle                                    *)

\* Run "b" depends on itself, or Runs "a" and "b" depend on each other
InitCycle ==
  /\ \E ns \in {"", RunNamespace}, dcj \in BOOLEAN :
       \/ runs = [r \in Runs |->
                    IF r = "b"
                    THEN NewRun(r, <<[name |-> "b", namespace |-> ns]>>, dcj)
                    ELSE NoRun(r)]
       \/ runs = [r \in Runs |->
                    NewRun(r, <<[name |-> IF r = "a" THEN "b" ELSE "a",
                                 namespace |-> ns]>>, dcj)]
  /\ EmptyCluster
  /\ call = NoCall

NextCycle ==
  \/ \E r \in Runs : Reconcile(r)
  \/ \E r \in Runs : EditSpec(r)
  \/ \E r \in Runs : DeleteRun(r)

SpecCycle == InitCycle /\ [][NextCycle]_vars

----------------------------------------------------------------------------
(* Properties *)

\* the name of the Job (and of the module ConfigMap) of the current run id
CurrentKey(r) == getUniqueResourceName(r, runs[r].status.RunID)

\* the name of the Job (and of the module ConfigMap) of the previous run id
PreviousKey(r) == getUniqueResourceName(r, runs[r].status.PreviousRunID)

\* the pass that has just returned wrote the status of Run r
WroteStatus(r) ==
  /\ last.run = r
  /\ \E i \in 1..Len(last.ops) : last.ops[i] = <<"updateStatus", "Terraform", r>>

\* C1: a Run whose stored observedGeneration equals its generation and whose
\* runStatus is Started, Running or Completed has a Job for currentRunId that
\* was built from the spec of that generation; no spec edit is marked as
\* observed without a Job created for it.
C1_ObservedSpecHasJob ==
  \A r \in Runs :
    ( /\ runs[r].exists
      /\ runs[r].status.ObservedGeneration = runs[r].generation
      /\ runs[r].status.RunStatus \in {RunStarted, RunRunning, RunCompleted} )
    => jobSpecGeneration[CurrentKey(r)] = runs[r].generation

\* C2: the stored observedGeneration of a Run never exceeds its generation,
\* whatever the interleaving of spec edits and reconciliations.
C2_ObservedGenerationBounded ==
  \A r \in Runs : runs[r].status.ObservedGeneration <= runs[r].generation

\* a pass has written the status of a Run whose spec was edited before
C2_Witness ==
  \E r \in Runs :
    /\ WroteStatus(r)
    /\ runs[r].generation > 1
    /\ runs[r].status.ObservedGeneration = runs[r].generation

\* the Jobs owned by Run r that are created, not marked for deletion and not
\* yet finished
ActiveJobs(r) ==
  {k \in ChildKeys : /\ Owner(k) = r
                     /\ jobs[k].exists /\ ~jobs[k].deleting
                     /\ ~Finished(jobs[k])}

\* C3: at any time at most one Job owned by a Run is active (created and not
\* yet finished), also when the Job was created, the status write to Started
\* failed and the reconciliation is retried.
C3_OneActiveJob ==
  \A r \in Runs : Cardinality(ActiveJobs(r)) <= 1

\* the finalizer is set, the shared ServiceAccount and RoleBinding exist, the
\* module ConfigMap and the Job of currentRunId and the output Secret exist,
\* and runStatus is Started
StartedWithChildren(r) ==
  /\ runs[r].exists
  /\ TerraformFinalizer \in runs[r].finalizers
  /\ serviceAccount /\ roleBinding
  /\ runs[r].status.RunID \in RunIds
  /\ configMaps[CurrentKey(r)].exists
  /\ jobs[CurrentKey(r)].exists
  /\ secrets[r]
  /\ runs[r].status.RunStatus = RunStarted

\* C4: a newly created Run with no dependencies, when no cluster call fails,
\* the Run is not deleted and reconciliations are delivered fairly, eventually
\* has the finalizer, the ServiceAccount and RoleBinding, the module ConfigMap
\* and Job named after currentRunId, the output Secret, and runStatus Started.
C4_SubmitToStarted ==
  \A r \in Runs :
    (runs[r].exists /\ runs[r].dependsOn = <<>>)
      => <>(StartedWithChildren(r) \/ failures > 0 \/ runs[r].deletionTimestamp)

\* a create pass with no failing call has left the Run Started with its children
C4_Witness ==
  \E r \in Runs :
    /\ StartedWithChildren(r)
    /\ last.run = r /\ last.branch = "create" /\ last.err = NoErr
    /\ failures = 0 /\ ~runs[r].deletionTimestamp

\* the Job of currentRunId reports a success and no active pod
JobSucceeded(r) ==
  /\ runs[r].status.RunID \in RunIds
  /\ jobs[CurrentKey(r)].exists
  /\ jobs[CurrentKey(r)].succeeded > 0
  /\ jobs[CurrentKey(r)].active = 0

\* C5: whenever a Run is Started or Running and the Job of currentRunId
\* reports succeeded > 0 and active = 0, then under fair delivery of
\* reconciliations the Run (unless it is deleted) eventually is Completed
\* with completionTime set.
C5_StartedToCompleted ==
  \A r \in Runs :
    ( /\ runs[r].exists
      /\ runs[r].status.RunStatus \in {RunStarted, RunRunning}
      /\ JobSucceeded(r) )
      ~> ( \/ ~runs[r].exists \/ runs[r].deletionTimestamp
           \/ /\ runs[r].status.RunStatus = RunCompleted
              /\ runs[r].status.CompletionTime # "" )

\* every entry of spec.dependsOn, its namespace defaulting to the namespace
\* of the Run, names an existing Run that is Completed at its generation
DepsReady(r) ==
  \A i \in 1..Len(runs[r].dependsOn) :
    LET d == runs[r].dependsOn[i]
        ns == IF d.namespace = "" THEN runs[r].namespace ELSE d.namespace
    IN  /\ ns = RunNamespace /\ d.name \in Runs
        /\ runs[d.name].exists
        /\ runs[d.name].generation = runs[d.name].status.ObservedGeneration
        /\ runs[d.name].status.RunStatus = RunCompleted

\* a Run that is Completed, not marked for deletion, and whose spec was edited
\* since the status was written
CompletedAndEdited(r) ==
  /\ runs[r].exists /\ ~runs[r].deletionTimestamp
  /\ runs[r].status.RunStatus = RunCompleted
  /\ runs[r].generation > runs[r].status.ObservedGeneration

\* the step is a pass of Run r in which no cluster call returned an error
\* that the pass did not absorb, and none was made to fail
CleanPassOf(r) ==
  /\ last'.run = r /\ last'.err = NoErr /\ failures' = failures

\* the effect of the re-run on Run r
Rerun(r) ==
  LET old == runs[r].status.RunID
      new == runs'[r].status.RunID
  IN  /\ runs'[r].status.PreviousRunID = old
      /\ new \in RunIds /\ new # old
      /\ configMaps'[getUniqueResourceName(r, new)] = NewObject
      /\ jobs'[getUniqueResourceName(r, new)] = NewJob
      /\ LET cm == configMaps'[getUniqueResourceName(r, old)]
             job == jobs'[getUniqueResourceName(r, old)]
         IN  (~cm.exists \/ cm.deleting) /\ (~job.exists \/ job.deleting)
      /\ runs'[r].status.RunStatus = RunStarted

\* C6: for a Completed Run whose generation was then incremented, the next
\* pass that loads the Run takes the update branch and, when no cluster call
\* fails and the
\* dependencies are ready, ends with previousRunId the old currentRunId, a
\* different new currentRunId, a ConfigMap and a Job of the new id, the
\* ConfigMap and the Job of the old id deleted, and runStatus Started.
C6_UpdateRerun ==
  [][ \A r \in Runs :
        (CompletedAndEdited(r) /\ last'.run = r /\ last'.branch # "get")
          => /\ last'.branch = "update"
             /\ (CleanPassOf(r) /\ DepsReady(r)) => Rerun(r) ]_vars

\* the module ConfigMap and the Job of previousRunId are deleted or marked
PreviousGone(r) ==
  /\ ~configMaps[PreviousKey(r)].exists \/ configMaps[PreviousKey(r)].deleting
  /\ ~jobs[PreviousKey(r)].exists \/ jobs[PreviousKey(r)].deleting

\* C7: whenever a pass writes runStatus Started for a currentRunId that
\* replaced a non-empty previous run id, the module ConfigMap and the Job of
\* the previous run id are deleted or marked for deletion at the status write,
\* whatever the delete calls returned.
C7_PreviousGoneAtStarted ==
  \A r \in Runs :
    ( /\ WroteStatus(r) /\ last.branch \in {"create", "update"}
      /\ runs[r].status.RunStatus = RunStarted
      /\ runs[r].status.PreviousRunID # "" )
    => PreviousGone(r)

\* C8: after a pass returns, a non-empty previousRunId has no ConfigMap and
\* no Job that exists without being marked for deletion, also when the pass
\* ended in Failed after it allocated the new run id.
C8_PreviousIdHasNoChildren ==
  \A r \in Runs :
    (last.run = r /\ runs[r].exists /\ runs[r].status.PreviousRunID # "")
      => PreviousGone(r)

\* the step leaves every child resource as it is
ChildrenUnchanged ==
  UNCHANGED <<serviceAccount, roleBinding, configMaps, secrets, jobs>>

\* the step is a pass of Run r in the create or update path that finds some
\* dependency not ready
GateClosed(r) ==
  /\ runs[r].exists
  /\ last'.run = r /\ last'.branch \in {"create", "update"}
  /\ ~DepsReady(r)

\* the pass has created nothing and has allocated no run id
NothingCreated(r) ==
  /\ ChildrenUnchanged
  /\ runs'[r].status.RunID = runs[r].status.RunID
  /\ runs'[r].status.PreviousRunID = runs[r].status.PreviousRunID

\* the Run is stored as waiting and the pass asks to be requeued
WaitsAndRequeues(r) ==
  /\ runs'[r].status.RunStatus = RunWaitingForDependency
  /\ last'.requeueAfter = "requeueDependency"

\* C9 as stated: a create or update pass of a Run with a dependency that is
\* not ready creates no child and allocates no run id, and the Run becomes
\* WaitingForDependency with a requeue after requeueDependency.
C9_GateAlwaysWaits ==
  [][ \A r \in Runs :
        GateClosed(r) => NothingCreated(r) /\ WaitsAndRequeues(r) ]_vars

\* C9: a create or update pass of a Run with a dependency that is not ready
\* creates no child and allocates no run id; the Run becomes
\* WaitingForDependency with a requeue after requeueDependency, unless the
\* status write fails: then the stored status is unchanged and the pass
\* returns the error with no requeue interval.
C9_DependencyGate ==
  [][ \A r \in Runs :
        GateClosed(r)
          => /\ NothingCreated(r)
             /\ IF last'.err = NoErr
                THEN WaitsAndRequeues(r)
                ELSE /\ runs'[r].status = runs[r].status
                     /\ last'.requeueAfter = ""
                     /\ failures' = failures + 1 ]_vars

\* a pass has stopped at the gate and stored WaitingForDependency while the
\* Run depended on exists and is not Completed at its generation
C9_Witness ==
  \E r \in Runs :
    /\ WroteStatus(r) /\ last.branch \in {"create", "update"}
    /\ last.requeueAfter = "requeueDependency"
    /\ runs[r].status.RunStatus = RunWaitingForDependency
    /\ runs[r].dependsOn # <<>>
    /\ runs[runs[r].dependsOn[1].name].exists
    /\ ~DepsReady(r)

C11_WaitingHasNoChildren ==
  \A r \in Runs :
    ( /\ runs[r].exists
      /\ runs[r].status.RunStatus = RunWaitingForDependency
      /\ runs[r].status.RunID # "" )
    => /\ ~configMaps[CurrentKey(r)].exists
       /\ ~jobs[CurrentKey(r)].exists

\* the step creates a ConfigMap, a Job or the output Secret of Run r
CreatesChildOf(r) ==
  \/ secrets'[r] /\ ~secrets[r]
  \/ \E k \in ChildKeys :
       /\ Owner(k) = r
       /\ \/ configMaps'[k].exists /\ ~configMaps[k].exists
          \/ jobs'[k].exists /\ ~jobs[k].exists

\* C12: a pass that finds the Run without the finalizer takes the finalizer
\* step only: its only cluster write is the metadata update that adds the
\* finalizer, it writes no status and creates or deletes no child; and no
\* step creates a child of a Run that lacks the finalizer.
C12_FinalizerFirst ==
  [][ \A r \in Runs :
        /\ ( /\ runs[r].exists
             /\ TerraformFinalizer \notin runs[r].finalizers
             /\ last'.run = r /\ last'.branch # "get" )
           => /\ last'.branch = "finalizer"
              /\ last'.ops \in {<<>>, << <<"update", "Terraform", r>> >>}
              /\ last'.err = NoErr
                   => /\ last'.ops = << <<"update", "Terraform", r>> >>
                      /\ runs'[r].finalizers = runs[r].finalizers \cup {TerraformFinalizer}
              /\ runs'[r].status = runs[r].status
              /\ ChildrenUnchanged
        /\ CreatesChildOf(r)
             => runs[r].exists /\ TerraformFinalizer \in runs[r].finalizers ]_vars

\* the finalizer step has just added the finalizer to a Run that has no
\* status and no child yet
C12_Witness ==
  \E r \in Runs :
    /\ last.run = r /\ last.branch = "finalizer" /\ last.err = NoErr
    /\ runs[r].exists
    /\ TerraformFinalizer \in runs[r].finalizers
    /\ runs[r].status = EmptyStatus
    /\ ~secrets[r]
    /\ \A k \in ChildKeys : Owner(k) = r => ~configMaps[k].exists /\ ~jobs[k].exists

\* C13: a pass that finds the Run with the finalizer and a deletionTimestamp,
\* whatever its runStatus, takes the deletion branch: its only cluster write
\* is the metadata update that removes the finalizer; it leaves the status as
\* it is and creates or deletes no ConfigMap, Secret, Job, ServiceAccount or
\* RoleBinding.
C13_DeletionPass ==
  [][ \A r \in Runs :
        ( /\ runs[r].exists
          /\ TerraformFinalizer \in runs[r].finalizers
          /\ runs[r].deletionTimestamp
          /\ last'.run = r /\ last'.branch # "get" )
        => /\ last'.branch = "delete"
           /\ last'.ops \in {<<>>, << <<"update", "Terraform", r>> >>}
           /\ last'.err = NoErr
                => /\ last'.ops = << <<"update", "Terraform", r>> >>
                   /\ TerraformFinalizer \notin runs'[r].finalizers
           /\ runs'[r].status = runs[r].status
           /\ ChildrenUnchanged ]_vars

\* the deletion pass has removed the finalizer of a Run that was started, and
\* the Job, the ConfigMap and the Secret of the Run are still there
C13_Witness ==
  \E r \in Runs :
    /\ last.run = r /\ last.branch = "delete" /\ last.err = NoErr
    /\ TerraformFinalizer \notin runs[r].finalizers
    /\ runs[r].status.RunStatus \in {RunStarted, RunRunning, RunCompleted, RunFailed}
    /\ secrets[r]
    /\ jobs[CurrentKey(r)].exists /\ ~jobs[CurrentKey(r)].deleting
    /\ configMaps[CurrentKey(r)].exists /\ ~configMaps[CurrentKey(r)].deleting

\* C14: in every stored state, a runStatus of Started, Running, Completed or
\* Failed comes with a non-empty currentRunId of 6 characters, so a Run with
\* an empty currentRunId is never Started or Running.
C14_RunIdSet ==
  \A r \in Runs :
    runs[r].status.RunStatus \in {RunStarted, RunRunning, RunCompleted, RunFailed}
      => /\ runs[r].status.RunID # ""
         /\ Len(runs[r].status.RunID) = 6

\* a first create pass drew a run id, failed at a later call and stored Failed
C14_Witness ==
  \E r \in Runs :
    /\ WroteStatus(r) /\ last.branch = "create" /\ last.err # NoErr
    /\ runs[r].status.RunStatus = RunFailed
    /\ runs[r].status.RunID \in RunIds
    /\ runs[r].status.PreviousRunID = ""

\* the stored outputSecretName of Run r is truncate(name, 220) + "-outputs",
\* and the output Secret of that name exists
OutputSecretKept(r) ==
  /\ runs[r].status.OutputSecretName = truncateResourceName(r, 220) \o "-outputs"
  /\ secrets[r]

\* C15: once the stored runStatus of a Run has been Started, in every later
\* state in which the Run exists its outputSecretName is truncate(name, 220) +
\* "-outputs" and the output Secret of that name exists, across re-runs,
\* failures and waiting periods.
C15_OutputSecretKept ==
  \A r \in Runs :
    []( (runs[r].exists /\ runs[r].status.RunStatus = RunStarted)
          => [](runs[r].exists => OutputSecretKept(r)) )

\* a Run that was started before has been run again after a spec edit and
\* that run failed; the name and the Secret are still there
C15_Witness ==
  \E r \in Runs :
    /\ runs[r].exists
    /\ WroteStatus(r) /\ last.branch = "update"
    /\ runs[r].status.RunStatus = RunFailed
    /\ runs[r].status.PreviousRunID # ""
    /\ runs[r].status.StartedTime # ""
    /\ OutputSecretKept(r)

\* the labels of the module ConfigMap or the Job named k: both are built in
\* the pass that draws the run id of the name, from that id
LabelsOf(k) ==
  getCommonLabels(Owner(k), CHOOSE id \in RunIds : k = getUniqueResourceName(Owner(k), id))

\* the labels a child of Run r has when they name the current run id
CurrentLabels(r) ==
  [ terraformRunName |-> r, terraformRunId |-> runs[r].status.RunID,
    component |-> "Terraform-run", owner |-> "run.terraform-operator.io" ]

\* C16: in every state, every ConfigMap, Secret and Job created for a Run
\* that exists is owned by that Run and carries the labels terraformRunName =
\* the name of the Run and terraformRunId = the currentRunId of the Run; the
\* output Secret also after a re-run has changed currentRunId.
C16_ChildLabels ==
  \A r \in Runs :
    runs[r].exists
      => /\ secrets[r] => secretLabels[r] = CurrentLabels(r)
         /\ \A k \in ChildKeys :
              (Owner(k) = r /\ (configMaps[k].exists \/ jobs[k].exists))
                => LabelsOf(k) = CurrentLabels(r)

\* the pass of the step has created an object of the kind
CreatedA(kind) ==
  \E i \in 1..Len(last'.ops) : last'.ops[i][1] = "create" /\ last'.ops[i][2] = kind

\* the step is a create or update pass of Run r in which the create of the
\* module ConfigMap or of the Job found an object of that name
CreateCollides(r) ==
  /\ last'.run = r /\ last'.branch \in {"create", "update"}
  /\ last'.err = AlreadyExists

\* the pass created no Job, and no Secret either when it was the ConfigMap
\* that was taken
NoLaterChild ==
  /\ ~CreatedA("Job")
  /\ \A k \in ChildKeys : jobs'[k].exists => jobs[k].exists
  /\ ~CreatedA("ConfigMap") => ~CreatedA("Secret") /\ secrets' = secrets

\* the stored runStatus of Run r is Failed, with completionTime set
StoredFailed(r) ==
  /\ runs'[r].status.RunStatus = RunFailed
  /\ runs'[r].status.CompletionTime # ""

\* a pass that stores Started has created the ConfigMap and the Job of its
\* run id itself
StartedCreatesBoth(r) ==
  ( /\ last'.run = r /\ last'.branch \in {"create", "update"} /\ last'.err = NoErr
    /\ runs'[r].status.RunStatus = RunStarted )
  => /\ ~configMaps[getUniqueResourceName(r, runs'[r].status.RunID)].exists
     /\ ~jobs[getUniqueResourceName(r, runs'[r].status.RunID)].exists

\* C17 as stated: when the create of the module ConfigMap or of the Job finds
\* an object of that name, the pass returns the error, creates no Job and no
\* later child in the order ConfigMap, Secret, Job, and the stored runStatus
\* becomes Failed with completionTime set.
C17_CollisionStoresFailed ==
  [][ \A r \in Runs :
        /\ StartedCreatesBoth(r)
        /\ CreateCollides(r) => NoLaterChild /\ StoredFailed(r) ]_vars

\* C17: when the create of the module ConfigMap or of the Job finds an object
\* of that name, the pass returns the error and creates no Job and no later
\* child in the order ConfigMap, Secret, Job; the stored runStatus becomes
\* Failed with completionTime set, unless the write of that status fails
\* too: then the stored status is unchanged.
C17_CreateCollision ==
  [][ \A r \in Runs :
        /\ StartedCreatesBoth(r)
        /\ CreateCollides(r)
             => /\ NoLaterChild
                /\ IF failures' = failures
                   THEN StoredFailed(r)
                   ELSE runs'[r].status = runs[r].status ]_vars

\* a pass has drawn a run id whose ConfigMap is taken while the Job of that
\* name is gone, and has stored Failed
C17_Witness ==
  \E r \in Runs :
    /\ WroteStatus(r) /\ last.branch \in {"create", "update"}
    /\ last.err = AlreadyExists
    /\ runs[r].status.RunStatus = RunFailed
    /\ runs[r].status.CompletionTime # ""
    /\ configMaps[CurrentKey(r)].exists
    /\ ~jobs[CurrentKey(r)].exists

\* the pass that has just returned was a job-watch pass of Run r that found
\* the Job of currentRunId succeeded
SawJobSucceeded(r) ==
  /\ last.run = r /\ last.branch = "jobwatch"
  /\ \E i \in 1..Len(last.events) : last.events[i] = "Completed"

\* the pass that has just returned deleted the Job of the current run id
DeletedCurrentJob(r) ==
  \E i \in 1..Len(last.ops) : last.ops[i] = <<"delete", "Job", CurrentKey(r)>>

\* what a job-watch pass does on a succeeded Job: it deletes the Job only when
\* deleteCompletedJobs is set, and then it does unless a call of the delete
\* fails; it emits Cleanup exactly when the delete succeeded
DeletesCompletedJob ==
  \A r \in Runs :
    SawJobSucceeded(r)'
      => /\ DeletedCurrentJob(r)' => runs[r].deleteCompletedJobs
         /\ (runs[r].deleteCompletedJobs /\ failures' = failures) => DeletedCurrentJob(r)'
         /\ DeletedCurrentJob(r)' <=> \E i \in 1..Len(last'.events) : last'.events[i] = "Cleanup"

\* C18: when a job-watch pass finds the Job of currentRunId succeeded, it
\* deletes the Job (foreground) if and only if deleteCompletedJobs is set, it
\* emits Cleanup only when that delete succeeded, and the Run (unless it is
\* deleted) becomes Completed whether or not the delete succeeded.
C18_DeleteCompletedJobs ==
  /\ [][DeletesCompletedJob]_vars
  /\ \A r \in Runs :
       SawJobSucceeded(r)
         ~> ( \/ ~runs[r].exists \/ runs[r].deletionTimestamp
              \/ runs[r].status.RunStatus = RunCompleted )

\* the step is a pass of Run r that follows a pass of Run r with no step of
\* the user, of the Job controller or of the garbage collector in between
SecondPassOf(r) ==
  /\ last.run = r
  /\ last'.run = r

\* the pass of the step changes nothing in the cluster
WritesNothing ==
  /\ last'.ops = <<>>
  /\ runs' = runs
  /\ ChildrenUnchanged
  /\ secretLabels' = secretLabels

C20_RaceNeverFails ==
  \A r \in Runs : runs[r].status.RunStatus # RunFailed

\* the pass of the step has made a call of the verb on an object of the kind
Called(verb, kind) ==
  \E i \in 1..Len(last'.ops) : last'.ops[i][1] = verb /\ last'.ops[i][2] = kind

\* the pass of the step goes on to the Job after the module ConfigMap: when
\* it created the ConfigMap of a name whose Job was not there and no call
\* was made to fail, it created the Job of that name
JobFollowsConfigMap ==
  \A k \in ChildKeys :
    ( /\ \E i \in 1..Len(last'.ops) : last'.ops[i] = <<"create", "ConfigMap", k>>
      /\ ~jobs[k].exists
      /\ failures' = failures )
    => jobs'[k].exists

\* C21: a pass of a Run whose output Secret exists makes no create call for
\* the Secret and still goes on to create the Job, and no pass (create,
\* update with the cleanup of the previous run id, job watch, deletion)
\* deletes or replaces the Secret.
C21_SecretSurvives ==
  [][ \A r \in Runs :
        (last'.run = r /\ secrets[r])
          => /\ ~Called("create", "Secret")
             /\ ~Called("delete", "Secret")
             /\ secrets'[r]
             /\ secretLabels'[r] = secretLabels[r]
             /\ JobFollowsConfigMap ]_vars

\* an update pass has started a new run with a new ConfigMap and Job, has
\* marked the children of the previous run id, and the Secret of the first
\* run is still there
C21_Witness ==
  \E r \in Runs :
    /\ WroteStatus(r) /\ last.branch = "update" /\ last.err = NoErr
    /\ runs[r].status.RunStatus = RunStarted
    /\ runs[r].status.PreviousRunID # ""
    /\ runs[r].status.PreviousRunID # runs[r].status.RunID
    /\ jobs[CurrentKey(r)] = NewJob
    /\ jobs[PreviousKey(r)].deleting
    /\ secrets[r]
    /\ secretLabels[r].terraformRunId = runs[r].status.PreviousRunID
    /\ \A i \in 1..Len(last.ops) : last.ops[i][2] # "Secret"

\* the pass of the step has emitted the event
Emitted(reason) ==
  \E i \in 1..Len(last'.events) : last'.events[i] = reason

\* the pass of the step came to a status write: every path of the create and
\* update branches ends in one, but for a Run that is waiting already and
\* waits on; the job watch writes when it has emitted Running, Completed or
\* Failed
ReachedStatusWrite ==
  \/ /\ last'.branch \in {"create", "update"}
     /\ Emitted("Waiting") \/ last'.requeueAfter # "requeueDependency"
  \/ /\ last'.branch = "jobwatch"
     /\ Emitted("Running") \/ Emitted("Completed") \/ Emitted("Failed")

\* the status write of the pass of the step failed
StatusWriteFailed ==
  ReachedStatusWrite /\ ~Called("updateStatus", "Terraform")

\* C22: whenever the status write of a pass fails, in whichever branch and
\* for whichever status (WaitingForDependency, Started, Running, Completed,
\* Failed), the pass returns an error and no requeue interval, and the
\* stored status is as it was.
C22_StatusErrorReturned ==
  [][ \A r \in Runs :
        (last'.run = r /\ StatusWriteFailed)
          => /\ last'.err # NoErr
             /\ last'.requeueAfter = ""
             /\ runs'[r].status = runs[r].status ]_vars

\* the job watch found the Job succeeded, its write of Completed failed, and
\* the pass returned the error
C22_Witness ==
  \E r \in Runs :
    /\ last.run = r /\ last.branch = "jobwatch"
    /\ \E i \in 1..Len(last.events) : last.events[i] = "Completed"
    /\ \A i \in 1..Len(last.ops) : last.ops[i][1] # "updateStatus"
    /\ last.err = OtherErr
    /\ runs[r].status.RunStatus \in {RunStarted, RunRunning}

\* the pass that has just returned was a create pass of Run r, which has no
\* dependencies, and a cluster call of it failed and the pass returned an
\* error
CreateFailed(r) ==
  /\ runs[r].exists /\ runs[r].dependsOn = <<>>
  /\ last.run = r /\ last.branch = "create"
  /\ last.failed /\ last.err # NoErr

\* C23: after a create pass of a Run has returned the error of a cluster
\* call, the passes that are delivered again bring the Run to Started once
\* no call fails any more, without a spec edit (unless the Run is deleted).
C23_CreateRetried ==
  \A r \in Runs : \A g \in 1..MaxGeneration :
    (CreateFailed(r) /\ runs[r].generation = g)
      ~> ( \/ runs[r].status.RunStatus = RunStarted
           \/ ~runs[r].exists \/ runs[r].deletionTimestamp
           \/ runs[r].generation # g )

\* the sequence s is contained in the sequence t, in the order of s
RECURSIVE IsSubsequence(_, _)
IsSubsequence(s, t) ==
  IF s = <<>> THEN TRUE
  ELSE IF t = <<>> THEN FALSE
  ELSE IF Head(s) = Head(t) THEN IsSubsequence(Tail(s), Tail(t))
  ELSE IsSubsequence(s, Tail(t))

\* the keys of the variables that are not passed through the environment
RECURSIVE RenderedKeys(_)
RenderedKeys(variables) ==
  IF variables = <<>> THEN <<>>
  ELSE (IF Head(variables).EnvironmentVariable THEN <<>> ELSE <<Head(variables).Key>>)
       \o RenderedKeys(Tail(variables))

\* how many lines of the sequence are in the set
CountLines(lines, set) == Cardinality({i \in 1..Len(lines) : lines[i] \in set})

\* C24: the rendered main.tf contains, in this order, required_version =
\* "~> X", one variable "K" {} line per variable that is not an environment
\* variable, the marker ## additional-blocks, source = "S", version = "V"
\* only when V is set, and one K = var.K line per such variable; the
\* environment variables appear in neither list.
C24_RendererOrder ==
  (call.fn = "GetTerraformModuleFromTemplate" /\ call.done)
    => LET spec == call.in
           keys == RenderedKeys(spec.Variables)
           expected ==
             <<"required_version = \"~> " \o spec.TerraformVersion \o "\"">>
             \o [i \in 1..Len(keys) |-> "variable \"" \o keys[i] \o "\" {}"]
             \o <<"## additional-blocks", "source = \"" \o spec.Module.Source \o "\"">>
             \o (IF spec.Module.Version # ""
                 THEN <<"version = \"" \o spec.Module.Version \o "\"">> ELSE <<>>)
             \o [i \in 1..Len(keys) |-> keys[i] \o " = var." \o keys[i]]
       IN  /\ IsSubsequence(expected, call.out)
           /\ CountLines(call.out, {"variable \"" \o k \o "\" {}" : k \in VariableKeys}) = Len(keys)
           /\ CountLines(call.out, {k \o " = var." \o k : k \in VariableKeys}) = Len(keys)
           /\ spec.Module.Version = ""
                => CountLines(call.out, {"version = \"" \o v \o "\"" : v \in ModuleVersions}) = 0

\* a spec with a module version, a variable that is rendered and an
\* environment variable behind it has been rendered
C24_Witness ==
  /\ call.fn = "GetTerraformModuleFromTemplate" /\ call.done
  /\ call.in.Module.Version # ""
  /\ Len(call.in.Variables) = 2
  /\ ~call.in.Variables[1].EnvironmentVariable
  /\ call.in.Variables[2].EnvironmentVariable
  /\ Len(call.out) > 6

\* the dependencies of the namespace of the Run that the variable v names
NamedBy(v, dependencies) ==
  {j \in 1..Len(dependencies) :
     /\ v.DependencyRef # NoRef
     /\ dependencies[j].Name = v.DependencyRef.Name
     /\ dependencies[j].Namespace = RunNamespace}

\* how often the variable occurs in the list
Occurrences(variables, v) == Cardinality({i \in 1..Len(variables) : variables[i] = v})

\* C25: after SetVariablesFromDependencies every variable whose
\* dependencyRef names a dependency of the namespace of the Run has valueFrom
\* set to {secretName: outputSecretName of that dependency, key:
\* dependencyRef.key} under its own key, and every other variable is in the
\* list exactly as often as before, unchanged.
C25_VariableRewrite ==
  (call.fn = "SetVariablesFromDependencies" /\ call.done)
    => LET before == call.in.variables
           deps == call.in.dependencies
           after == call.out.variables
       IN  /\ ~call.out.panic
           /\ Len(after) = Len(before)
           /\ \A i \in 1..Len(before) :
                LET v == before[i] IN
                IF NamedBy(v, deps) # {}
                THEN \E j \in NamedBy(v, deps) :
                       Occurrences(after,
                         [ Key |-> v.Key, Value |-> "", DependencyRef |-> v.DependencyRef,
                           ValueFrom |-> [secretName |-> deps[j].OutputSecretName,
                                          key |-> v.DependencyRef.Key] ])
                         = Cardinality({k \in 1..Len(before) : before[k] = v})
                ELSE Occurrences(after, v) = Occurrences(before, v)

\* the name of the Job and of the module ConfigMap of the previous run id
PreviousChild == getUniqueResourceName("b", call.in.previousRunID)

\* C26: CleanupResources with previousRunId empty makes no cluster call and
\* returns nil; a previous Job that is not found does not keep it from
\* deleting the previous module ConfigMap, and it returns nil when either or
\* both are not found; an error other than NotFound of the delete of the Job
\* or of the ConfigMap is returned.
C26_Cleanup ==
  (call.fn = "CleanupResources" /\ call.done)
    => /\ call.in.previousRunID = ""
            => /\ call.out.err = NoErr /\ call.out.ops = <<>>
               /\ \A k \in ChildKeys : ~jobs[k].deleting /\ ~configMaps[k].deleting
       /\ (call.in.previousRunID # "" /\ call.in.F = {})
            => /\ call.out.err = NoErr
               /\ \A k \in ChildKeys :
                    /\ jobs[k].deleting <=> (k = PreviousChild /\ jobs[k].exists)
                    /\ configMaps[k].deleting <=> (k = PreviousChild /\ configMaps[k].exists)
       /\ (call.in.previousRunID # "" /\ call.in.F = {"deleteJobByRun.Get"})
            => call.out.err = OtherErr /\ call.out.ops = <<>>
       /\ (call.in.previousRunID # "" /\ call.in.F = {"deleteJobByRun.Delete"}
             /\ jobs[PreviousChild].exists)
            => call.out.err = OtherErr /\ call.out.ops = <<>>
       /\ (call.in.previousRunID # "" /\ call.in.F = {"deleteConfigMapByRun.Get"})
            => call.out.err = OtherErr
       /\ (call.in.previousRunID # "" /\ call.in.F = {"deleteConfigMapByRun.Delete"}
             /\ configMaps[PreviousChild].exists)
            => call.out.err = OtherErr

\* the previous Job was not there, and the previous ConfigMap is deleted
C26_Witness ==
  /\ call.fn = "CleanupResources" /\ call.done
  /\ call.in.previousRunID # "" /\ call.in.F = {}
  /\ ~jobs[PreviousChild].exists
  /\ configMaps[PreviousChild].deleting
  /\ call.out.err = NoErr

\* the handler the order of the predicates picks for the stored Run t
HandlerFor(t) ==
  IF t.status.RunID = "" \/ t.status.RunStatus = "WaitingForDependency" THEN "create"
  ELSE IF t.status.RunStatus \in {"Started", "Running"} THEN "jobwatch"
  ELSE IF t.generation > 0 /\ t.generation > t.status.ObservedGeneration THEN "update"
  ELSE "noop"

\* the Run r has the finalizer and is not marked for deletion
Dispatched(r) ==
  /\ runs[r].exists
  /\ TerraformFinalizer \in runs[r].finalizers
  /\ ~runs[r].deletionTimestamp

\* C27: a reconciliation of a Run that has the finalizer and no
\* deletionTimestamp runs exactly the handler of the first predicate that
\* holds, in the order Submitted or Waiting -> create, Started or Running ->
\* job watch, Updated -> update, and does nothing when none holds.
C27_Dispatch ==
  [][\A r \in Runs :
       (last'.run = r /\ last'.branch # "get" /\ Dispatched(r))
         => /\ last'.branch = HandlerFor(runs[r])
            /\ ("Updated" \in {last'.events[i] : i \in 1..Len(last'.events)})
                 <=> HandlerFor(runs[r]) = "update"
            /\ HandlerFor(runs[r]) = "noop"
                 => /\ last'.ops = <<>> /\ last'.events = <<>>
                    /\ last'.err = NoErr /\ last'.requeueAfter = ""
                    /\ runs' = runs /\ jobs' = jobs /\ configMaps' = configMaps]_vars

\* a pass has watched the Job of a Run whose spec was edited in the meantime
C27_Witness ==
  /\ last.run = "b" /\ last.branch = "jobwatch"
  /\ runs["b"].status.RunStatus = RunRunning
  /\ runs["b"].generation > runs["b"].status.ObservedGeneration

\* the pass that has just returned has stored runStatus Started for Run r
StoresStarted(r) ==
  /\ \E i \in 1..Len(last'.ops) : last'.ops[i] = <<"updateStatus", "Terraform", r>>
  /\ runs'[r].status.RunStatus = "Started"

\* C28: a reconciliation emits the Created event exactly when it sets
\* runStatus to Started, be it a first submission, a Run that leaves
\* WaitingForDependency, a pass that ends in WaitingForDependency or a re-run
\* after an update.
C28_CreatedIffStarted ==
  [][\A r \in Runs :
       last'.run = r
         => ((\E i \in 1..Len(last'.events) : last'.events[i] = "Created")
               <=> StoresStarted(r))]_vars

\* the pass has loaded the Job of the current run id
JobLoaded ==
  /\ call.fn = "handleRunJobWatch" /\ call.done
  /\ call.in.exists
  /\ "Get" \notin call.F /\ "GetJobForRun" \notin call.F

\* the runStatus the counts of the Job map to; "" where the status is not
\* written
MappedStatus ==
  IF call.in.job.active > 0
  THEN IF call.in.RunStatus = "Running" THEN "" ELSE "Running"
  ELSE IF call.in.job.succeeded > 0 THEN "Completed"
  ELSE IF call.in.job.failed > 0 THEN "Failed"
  ELSE ""

\* the pass has written the status of Run "b"
WroteStatusOfB == \E i \in 1..Len(last.ops) : last.ops[i] = <<"updateStatus", "Terraform", "b">>

\* the pass wrote no status and asks to be run again after requeueJobWatch
Requeued ==
  /\ ~WroteStatusOfB
  /\ runs["b"].status.RunStatus = call.in.RunStatus
  /\ last.err = NoErr /\ last.requeueAfter = "requeueJobWatch"

\* C29 as stated: with the Job of currentRunId loaded the counts are looked
\* at in the order active, succeeded, failed. active > 0 and the Run already
\* Running, or all counts zero: no status write and a requeue after
\* requeueJobWatch; active > 0 otherwise: the status becomes Running;
\* succeeded > 0: Completed; failed > 0: Failed.
C29_JobWatchMapping ==
  JobLoaded
    => IF MappedStatus = "" THEN Requeued
       ELSE runs["b"].status.RunStatus = MappedStatus

\* C29 amended: the mapped status is stored when the status write succeeds;
\* when the write fails the pass returns the error and the stored status
\* is as it was. A Job with active > 0 never yields Completed or Failed.
C29_JobWatch ==
  JobLoaded
    => /\ IF MappedStatus = "" THEN Requeued
          ELSE IF "Status.Update" \notin call.F
          THEN /\ WroteStatusOfB
               /\ runs["b"].status.RunStatus = MappedStatus
               /\ last.err = NoErr /\ last.requeueAfter = ""
          ELSE /\ ~WroteStatusOfB
               /\ runs["b"].status.RunStatus = call.in.RunStatus
               /\ last.err = "Other" /\ last.requeueAfter = ""
       /\ call.in.job.active > 0
            => runs["b"].status.RunStatus \notin {"Completed", "Failed"}

\* a Started Run whose Job has a failed pod and an active one is Running
C29_Witness ==
  /\ JobLoaded
  /\ call.in.job.active > 0 /\ call.in.job.failed > 0
  /\ call.in.RunStatus = "Started"
  /\ runs["b"].status.RunStatus = "Running"

\* C30: when a Run is Started or Running and the Job named
\* unique(runName, currentRunId) cannot be loaded, the reconciliation
\* returns the error, writes no status and creates or deletes nothing; the
\* stored status is unchanged.
C30_MissingJob ==
  [][\A r \in Runs :
       ( /\ last'.run = r /\ last'.branch # "get"
         /\ Dispatched(r)
         /\ runs[r].status.RunStatus \in {"Started", "Running"}
         /\ ~jobs[CurrentKey(r)].exists )
         => /\ last'.branch = "jobwatch"
            /\ last'.err # "" /\ last'.requeueAfter = ""
            /\ last'.ops = <<>> /\ last'.events = <<>>
            /\ runs' = runs /\ jobs' = jobs /\ configMaps' = configMaps
            /\ secrets' = secrets /\ serviceAccount' = serviceAccount
            /\ roleBinding' = roleBinding]_vars

\* a pass of a Started or Running Run has found the Job missing
C30_Witness ==
  /\ last.run = "b" /\ last.branch = "jobwatch"
  /\ last.err = "NotFound"
  /\ runs["b"].exists /\ ~runs["b"].deletionTimestamp
  /\ runs["b"].status.RunStatus \in {"Started", "Running"}
  /\ ~jobs[CurrentKey("b")].exists

\* C31: in every reconciliation pass there is at most one status write, and
\* after it no child is created or deleted: the status write is the last
\* cluster write of the pass, so the deletion of a completed Job and the
\* cleanup of the children of the previous run id come before it.
C31_StatusWriteLast ==
  \A i \in 1..Len(last.ops) :
    last.ops[i][1] = "updateStatus" => i = Len(last.ops)

\* a pass has deleted a Job and then written the status
C31_Witness ==
  /\ Len(last.ops) >= 2
  /\ last.ops[Len(last.ops)][1] = "updateStatus"
  /\ \E i \in 1..(Len(last.ops) - 1) : last.ops[i][1] = "delete" /\ last.ops[i][2] = "Job"

\* the place of a kind of object in the order of creation
CreationRank(kind) ==
  CASE kind = "ServiceAccount" -> 1
    [] kind = "RoleBinding" -> 2
    [] kind = "ConfigMap" -> 3
    [] kind = "Secret" -> 4
    [] kind = "Job" -> 5
    [] OTHER -> 6

\* the pass that has just returned made the call verb on an object of kind
\* named name
CalledOn(verb, kind, name) ==
  \E i \in 1..Len(last'.ops) : last'.ops[i] = <<verb, kind, name>>

\* C32: within one create pass the creates happen in the order
\* ServiceAccount, RoleBinding, module ConfigMap, output Secret, Job; a step
\* runs only when every earlier step succeeded, a failed step is followed by
\* no later step and no delete of what was created, and Started is written
\* only in a pass that created the Job of currentRunId.
C32_CreationOrder ==
  [][\A r \in Runs :
       (last'.run = r /\ last'.branch \in {"create", "update"})
         => /\ \A i, j \in 1..Len(last'.ops) :
                 (i < j /\ last'.ops[i][1] = "create" /\ last'.ops[j][1] = "create")
                   => CreationRank(last'.ops[i][2]) < CreationRank(last'.ops[j][2])
            /\ \A k \in ChildKeys :
                 /\ CalledOn("create", "ConfigMap", k) => serviceAccount' /\ roleBinding'
                 /\ CalledOn("create", "Job", k)
                      => CalledOn("create", "ConfigMap", k) /\ secrets'[r]
            /\ Called("create", "Secret")
                 => \E k \in ChildKeys : CalledOn("create", "ConfigMap", k)
            /\ Called("create", "RoleBinding") => serviceAccount'
            /\ ~Called("create", "Job")
                 => /\ ~Called("delete", "Job") /\ ~Called("delete", "ConfigMap")
                    /\ ~StoresStarted(r)
                    /\ \A k \in ChildKeys :
                         /\ configMaps[k].exists => configMaps'[k] = configMaps[k]
                         /\ jobs'[k] = jobs[k]
                    /\ secrets[r] => secrets'[r]
            /\ StoresStarted(r)
                 => CalledOn("create", "Job",
                             getUniqueResourceName(r, runs'[r].status.RunID))]_vars

\* a create pass has created the module ConfigMap, failed at a later step
\* and created no Job
C32_Witness ==
  /\ last.run = "b" /\ last.branch = "create" /\ last.failed
  /\ \E i \in 1..Len(last.ops) : last.ops[i][1] = "create" /\ last.ops[i][2] = "ConfigMap"
  /\ \A i \in 1..Len(last.ops) : ~(last.ops[i][1] = "create" /\ last.ops[i][2] = "Job")
  /\ last.err # ""
  /\ runs["b"].status.RunStatus = "Failed"

\* the pass that has just returned stopped at the dependency gate
StoppedAtGate ==
  \/ last'.requeueAfter = "requeueDependency"
  \/ \E i \in 1..Len(last'.events) : last'.events[i] = "Waiting"

\* the ConfigMaps and Jobs the pass has created are those of run id id
ChildrenKeyedBy(r, id) ==
  \A i \in 1..Len(last'.ops) :
    (last'.ops[i][1] = "create" /\ last'.ops[i][2] \in {"ConfigMap", "Job"})
      => last'.ops[i][3] = getUniqueResourceName(r, id)

\* what C33 says of a create or update pass of Run r, but for the run id
\* being a new one
RunIdAllocated(r) ==
  /\ ~DepsReady(r) => StoppedAtGate
  /\ (DepsReady(r) /\ ~last'.failed) => ~StoppedAtGate
  /\ StoppedAtGate
       => /\ runs'[r].status.RunID = runs[r].status.RunID
          /\ runs'[r].status.PreviousRunID = runs[r].status.PreviousRunID
          /\ \A i \in 1..Len(last'.ops) : last'.ops[i][1] # "create"
  /\ ~StoppedAtGate
       => IF CalledOn("updateStatus", "Terraform", r)
          THEN /\ runs'[r].status.RunID \in RunIds
               /\ runs'[r].status.PreviousRunID =
                    IF runs[r].status.RunID # "" THEN runs[r].status.RunID
                    ELSE runs[r].status.PreviousRunID
               /\ ChildrenKeyedBy(r, runs'[r].status.RunID)
          ELSE /\ runs'[r].status.RunID = runs[r].status.RunID
               /\ runs'[r].status.PreviousRunID = runs[r].status.PreviousRunID
               /\ \E id \in RunIds : ChildrenKeyedBy(r, id)

C34_WaitingPoll ==
  [][\A r \in Runs :
       ( /\ last'.run = r /\ last'.branch # "get"
         /\ Dispatched(r)
         /\ runs[r].status.RunStatus = "WaitingForDependency"
         /\ ~DepsReady(r) )
         => /\ last'.branch = "create"
            /\ last'.ops = <<>>
            /\ runs'[r].status = runs[r].status
            /\ runs' = runs /\ configMaps' = configMaps /\ jobs' = jobs
            /\ secrets' = secrets
            /\ last'.err = "" /\ last'.requeueAfter = "requeueDependency"
            /\ \A i \in 1..Len(last'.events) : last'.events[i] # "Waiting"]_vars

\* a waiting Run whose spec was edited has been polled
C34_Witness ==
  /\ last.run = "b" /\ last.branch = "create"
  /\ last.requeueAfter = "requeueDependency" /\ last.ops = <<>>
  /\ runs["b"].status.RunStatus = "WaitingForDependency"
  /\ runs["b"].generation > runs["b"].status.ObservedGeneration

\* the runStatus values a stored runStatus can change to
StatusEdges(from) ==
  CASE from = "" -> {"WaitingForDependency", "Started", "Failed"}
    [] from = "WaitingForDependency" -> {"Started", "Failed"}
    [] from = "Started" -> {"Running", "Completed", "Failed"}
    [] from = "Running" -> {"Completed", "Failed"}
    [] from \in {"Completed", "Failed"} -> {"WaitingForDependency", "Started", "Failed"}
    [] OTHER -> {}

\* C35: the stored runStatus changes only along the edges empty ->
\* {WaitingForDependency, Started, Failed}; WaitingForDependency ->
\* {Started, Failed}; Started -> {Running, Completed, Failed}; Running ->
\* {Completed, Failed}; Completed or Failed -> {WaitingForDependency,
\* Started, Failed}, the last only when generation > observedGeneration;
\* Deleted is never stored.
C35_StatusEdges ==
  [][\A r \in Runs :
       /\ (runs[r].exists /\ runs'[r].exists
             /\ runs'[r].status.RunStatus # runs[r].status.RunStatus)
            => /\ runs'[r].status.RunStatus \in StatusEdges(runs[r].status.RunStatus)
               /\ runs[r].status.RunStatus \in {"Completed", "Failed"}
                    => runs[r].generation > runs[r].status.ObservedGeneration
       /\ runs'[r].status.RunStatus # "Deleted"]_vars

\* a Run that had completed or failed has been started again by an update
C35_Witness ==
  /\ last.run = "b" /\ last.branch = "update"
  /\ runs["b"].status.RunStatus = "Started"
  /\ runs["b"].status.CompletionTime # ""

\* C36: in every state reached after a reconciliation returns, every module
\* ConfigMap and Job that exists (and is not marked for deletion) and is
\* owned by an existing Run is keyed by the stored currentRunId or
\* previousRunId of that Run.
C36_NoOrphans ==
  last.run # ""
    => \A k \in ChildKeys :
         ( /\ runs[Owner(k)].exists
           /\ \/ configMaps[k].exists /\ ~configMaps[k].deleting
              \/ jobs[k].exists /\ ~jobs[k].deleting )
           => \/ runs[Owner(k)].status.RunID # "" /\ k = CurrentKey(Owner(k))
              \/ runs[Owner(k)].status.PreviousRunID # "" /\ k = PreviousKey(Owner(k))

\* C37: once a Run has a deletionTimestamp no reconciliation adds the
\* finalizer finalizers.terraform-operator.io to it or attempts to: a pass
\* of a Run that is being deleted and still exists does not take the step
\* that registers the finalizer.
C37_NoFinalizerWhileDeleting ==
  [][\A r \in Runs :
       (last'.run = r /\ last'.branch # "get"
          /\ runs[r].exists /\ runs[r].deletionTimestamp)
         => /\ last'.branch # "finalizer"
            /\ TerraformFinalizer \in runs'[r].finalizers
                 => TerraformFinalizer \in runs[r].finalizers]_vars

\* the keys of a variables list, as a bag
KeyBag(variables) ==
  [key \in {variables[i].Key : i \in 1..Len(variables)} |->
     Cardinality({i \in 1..Len(variables) : variables[i].Key = key})]

\* C38: SetVariablesFromDependencies completes without abort (no slice
\* access out of range) for every variables list and every dependencies
\* list, more dependencies than variables included, and the multiset of the
\* keys of the variables is the same after the call as before it.
C38_RewriteCompletes ==
  (call.fn = "SetVariablesFromDependencies" /\ call.done)
    => /\ ~call.out.panic
       /\ KeyBag(call.out.variables) = KeyBag(call.in.variables)

\* the Job of the current run id of Run r has finished, or it is gone or
\* marked for deletion
JobOver(r) ==
  /\ runs[r].status.RunID \in RunIds
  /\ \/ ~jobs[CurrentKey(r)].exists
     \/ jobs[CurrentKey(r)].deleting
     \/ /\ jobs[CurrentKey(r)].active = 0
        /\ jobs[CurrentKey(r)].succeeded > 0 \/ jobs[CurrentKey(r)].failed > 0

\* C39: a Run does not stay Started or Running for ever once its Job is
\* over: under fair delivery of reconciliations a Run whose Job of
\* currentRunId has succeeded or failed, or was deleted by the reconciler in
\* a pass whose status write then failed, eventually is Completed or Failed
\* (unless the Run is deleted).
C39_JobOverLeadsToEnd ==
  \A r \in Runs :
    ( /\ runs[r].exists
      /\ runs[r].status.RunStatus \in {"Started", "Running"}
      /\ JobOver(r) )
      ~> ( \/ ~runs[r].exists \/ runs[r].deletionTimestamp
           \/ runs[r].status.RunStatus \in {"Completed", "Failed"} )

\* Run r is on a cycle of dependsOn references of existing Runs
OnCycle(r) ==
  /\ runs[r].exists
  /\ \E i \in 1..Len(runs[r].dependsOn) :
       LET d == runs[r].dependsOn[i].name IN
       \/ d = r
       \/ /\ d \in Runs /\ runs[d].exists
          /\ \E j \in 1..Len(runs[d].dependsOn) : runs[d].dependsOn[j].name = r

\* C40: Runs whose dependsOn references form a cycle, a Run that depends on
\* itself included, never create a child and never leave the runStatus
\* values empty and WaitingForDependency; no Failed status is stored for
\* the cycle.
C40_CycleWaits ==
  \A r \in Runs :
    OnCycle(r)
      => /\ runs[r].status.RunStatus \in {"", "WaitingForDependency"}
         /\ runs[r].status.RunID = ""
         /\ ~secrets[r]
         /\ ~serviceAccount /\ ~roleBinding
         /\ \A k \in ChildKeys : ~configMaps[k].exists /\ ~jobs[k].exists

\* a waiting Run that depends on itself has been polled again
C40_Witness ==
  /\ last.run = "b" /\ last.branch = "create"
  /\ last.requeueAfter = "requeueDependency" /\ last.ops = <<>>
  /\ OnCycle("b")
  /\ runs["b"].dependsOn[1].name = "b"
  /\ runs["b"].status.RunStatus = "WaitingForDependency"
  /\ runs["b"].status.ObservedGeneration = runs["b"].generation

====
